---- MODULE Spec2Model ----
(***************************************************************************)
(* Availability reconciliation of Gatherly: the calendar sync passes of    *)
(* CalendarScheduler, GoogleCalendarScheduler and the on-demand sync       *)
(* routes, acting on the Availability rows of one user.                    *)
(*                                                                         *)
(* Dates are day numbers counted from the Monday of the current week, so   *)
(* week w starts on day 7*w and date.weekday() is day % 7.  Times of day   *)
(* are kept at minute granularity.  A time string is a record that keeps   *)
(* its encoding: '09:00' is [enc |-> "24h", hour |-> 9, minute |-> 0] and  *)
(* '9:00 AM' is [enc |-> "12h", hour |-> 9, minute |-> 0, mer |-> "AM"].   *)
(* A JSON object is a function whose domain is the set of its keys.        *)
(***************************************************************************)
EXTENDS Integers, Sequences, FiniteSets, TLC

VARIABLES
    availability,     \* the Availability table of the user: week_start_date -> availability_data
    google_calendar,  \* the busy periods the user's Google calendar holds
    outlook_calendar, \* the busy periods the user's Outlook calendar holds
    sync_enabled,     \* sync_enabled of the user's GoogleCalendarSync and OutlookCalendarSync records
    lastOp,           \* the step taken last
    prev,             \* the Availability table before that step
    subtract_call,    \* a call of _subtract_busy_times_from_ranges: its arguments and what it returned
    default_schedules, \* the DefaultSchedule rows of the user, in insertion order
    availability_rows, \* the Availability rows of the user one by one, where inserts are steps of their own
    session,          \* the requests and jobs in progress: what each has read and where it stands
    outcome,          \* what the operation taken last returned or reported
    adapter_call,     \* a call of a provider adapter: the provider's answer and what the adapter returned
    function_call,    \* a call of a function on its own: its arguments and what it returned
    job               \* a run of a sync job over the users: its inputs, the paths taken and its stats

vars == <<availability, google_calendar, outlook_calendar, sync_enabled, lastOp, prev, subtract_call,
          default_schedules, availability_rows, session, outcome, adapter_call, function_call, job>>

----------------------------------------------------------------------------
(* Bounds and program constants *)

MaxBusy == 2                \* busy periods the two calendars hold for the four weeks
MaxDayBusy == 2             \* busy times of one day in a call of the subtraction on its own
MaxDaySaves == 1            \* default schedules saved between day-by-day edits
MaxDefaults == 2            \* default schedules saved one after another
MaxRaceSaves == 2           \* save_default_schedule requests that may overlap

NumWeeks == 4               \* for week_offset in range(4)
CS_MIN_DURATION == 30       \* CalendarScheduler: duration_minutes >= 30
RT_MIN_DURATION == 60       \* routes: duration_minutes >= 60
GS_MIN_DURATION == 60       \* GoogleCalendarScheduler: duration_minutes >= 60

Weeks == 0 .. (NumWeeks - 1)

day_names == <<"monday", "tuesday", "wednesday", "thursday", "friday", "saturday", "sunday">>

----------------------------------------------------------------------------
(* Time values *)

\* 'HH:MM', the encoding of manual edits and of GoogleCalendarScheduler
Str24(m) == [enc |-> "24h", hour |-> m \div 60, minute |-> m % 60, mer |-> ""]

\* 'H:MM AM' / 'H:MM PM'
Str12(h, mi, mer) == [enc |-> "12h", hour |-> h, minute |-> mi, mer |-> mer]

\* a datetime.time object
TimeObj(h, mi) == [enc |-> "time", hour |-> h, minute |-> mi, mer |-> ""]

\* datetime.min.time() and datetime.max.time() (23:59:59.999999)
min_time == TimeObj(0, 0)
max_time == TimeObj(23, 59)

\* a datetime: a date and a minute of that day
DateTime(d, m) == [day |-> d, minute |-> m]
DateOf(dt) == dt.day
TimeOf(dt) == TimeObj(dt.minute \div 60, dt.minute % 60)

\* the text of a time string
Pad2(n) == IF n < 10 THEN "0" \o ToString(n) ELSE ToString(n)
TimeText(t) ==
    IF t.enc = "12h" THEN ToString(t.hour) \o ":" \o Pad2(t.minute) \o " " \o t.mer
    ELSE Pad2(t.hour) \o ":" \o Pad2(t.minute)

----------------------------------------------------------------------------
(* JSON objects *)

Get(obj, key, default) == IF key \in DOMAIN obj THEN obj[key] ELSE default

EmptyObj == <<>>

Range(start, end) == [start |-> start, end |-> end]

\* Availability.get_week_start: the Monday of the week of a date
get_week_start(date) == date - (date % 7)

\* Availability.get_day_availability on the row of a week ({} without a row here)
get_day_availability(data, day_name) == Get(data, day_name, EmptyObj)

\* Availability.get_or_create_availability followed by get_availability_data
get_or_create_availability(table, w) == IF w \in DOMAIN table THEN table[w] ELSE EmptyObj

\* day_names[current_date.weekday()]
DayName(current_date) == day_names[(current_date % 7) + 1]

----------------------------------------------------------------------------
(* Interval subtraction, the loop shared by the three copies of            *)
(* _subtract_busy_times_from_ranges                                        *)

\* variant: the part after the busy time is not kept
SplitRange_before_only(start, end, busy_start, busy_end) ==
    IF busy_end <= start \/ busy_start >= end
      THEN << <<start, end>> >>
      ELSE IF start < busy_start THEN << <<start, busy_start>> >> ELSE <<>>

\* one (start, end) of current_ranges against one busy time
SplitRange(start, end, busy_start, busy_end) ==
    IF busy_end <= start \/ busy_start >= end
      THEN << <<start, end>> >>
      ELSE (IF start < busy_start THEN << <<start, busy_start>> >> ELSE <<>>)
           \o (IF busy_end < end THEN << <<busy_end, end>> >> ELSE <<>>)

\* new_ranges: every range of current_ranges against one busy time
RECURSIVE SplitAll(_, _, _)
SplitAll(current_ranges, busy_start, busy_end) ==
    IF current_ranges = <<>> THEN <<>>
    ELSE SplitRange(Head(current_ranges)[1], Head(current_ranges)[2], busy_start, busy_end)
         \o SplitAll(Tail(current_ranges), busy_start, busy_end)

\* for busy_time in busy_times: current_ranges = new_ranges
RECURSIVE SubtractAll(_, _)
SubtractAll(current_ranges, busy) ==
    IF busy = <<>> THEN current_ranges
    ELSE SubtractAll(SplitAll(current_ranges, Head(busy)[1], Head(busy)[2]), Tail(busy))

RECURSIVE FlattenSeq(_)
FlattenSeq(seqs) == IF seqs = <<>> THEN <<>> ELSE Head(seqs) \o FlattenSeq(Tail(seqs))

----------------------------------------------------------------------------
(* CalendarScheduler._subtract_busy_times_from_ranges *)

\* variant: 'PM' does not add twelve hours
CS_time_to_minutes_no_pm(time_str) ==
    IF time_str.enc = "12h"
      THEN LET hours == IF time_str.mer = "AM" /\ time_str.hour = 12 THEN 0 ELSE time_str.hour
           IN hours * 60 + time_str.minute
      ELSE time_str.hour * 60 + time_str.minute

CS_time_to_minutes(time_str) ==
    IF time_str.enc = "12h"
      THEN LET hours == IF time_str.mer = "PM" /\ time_str.hour # 12 THEN time_str.hour + 12
                        ELSE IF time_str.mer = "AM" /\ time_str.hour = 12 THEN 0
                        ELSE time_str.hour
           IN hours * 60 + time_str.minute
      ELSE time_str.hour * 60 + time_str.minute

\* variant: the hour after noon is written 'AM'
CS_minutes_to_time_str_noon_am(minutes) ==
    LET hours == minutes \div 60
        mins  == minutes % 60
    IN IF hours = 0 THEN Str12(12, mins, "AM")
       ELSE IF hours <= 12 THEN Str12(hours, mins, "AM")
       ELSE Str12(hours - 12, mins, "PM")

CS_minutes_to_time_str(minutes) ==
    LET hours == minutes \div 60
        mins  == minutes % 60
    IN IF hours = 0 THEN Str12(12, mins, "AM")
       ELSE IF hours < 12 THEN Str12(hours, mins, "AM")
       ELSE IF hours = 12 THEN Str12(12, mins, "PM")
       ELSE Str12(hours - 12, mins, "PM")

\* variant: short remainders are kept
CS_range_remainders_unfiltered(time_range, busy) ==
    LET current_ranges ==
            SubtractAll(<< <<CS_time_to_minutes(time_range.start), CS_time_to_minutes(time_range.end)>> >>, busy)
    IN [i \in 1 .. Len(current_ranges) |->
          Range(CS_minutes_to_time_str(current_ranges[i][1]), CS_minutes_to_time_str(current_ranges[i][2]))]

\* the remainders of one time_range, filtered and formatted
CS_range_remainders(time_range, busy) ==
    LET current_ranges ==
            SubtractAll(<< <<CS_time_to_minutes(time_range.start), CS_time_to_minutes(time_range.end)>> >>, busy)
        kept == SelectSeq(current_ranges, LAMBDA p : p[2] - p[1] >= CS_MIN_DURATION)
    IN [i \in 1 .. Len(kept) |->
          Range(CS_minutes_to_time_str(kept[i][1]), CS_minutes_to_time_str(kept[i][2]))]

\* variant: only the first of the time_ranges is processed
CS_subtract_busy_times_from_ranges_first_only(time_ranges, busy_times) ==
    LET busy == [i \in 1 .. Len(busy_times) |->
                    <<CS_time_to_minutes(busy_times[i].start), CS_time_to_minutes(busy_times[i].end)>>]
    IN IF time_ranges = <<>> THEN <<>> ELSE CS_range_remainders(time_ranges[1], busy)

CS_subtract_busy_times_from_ranges(time_ranges, busy_times) ==
    LET busy == [i \in 1 .. Len(busy_times) |->
                    <<CS_time_to_minutes(busy_times[i].start), CS_time_to_minutes(busy_times[i].end)>>]
    IN FlattenSeq([i \in 1 .. Len(time_ranges) |-> CS_range_remainders(time_ranges[i], busy)])

----------------------------------------------------------------------------
(* routes/availability.py _subtract_busy_times_from_ranges *)

RT_time_to_minutes(time_str) ==
    IF time_str.enc = "12h"
      THEN LET hours == IF time_str.mer = "PM" /\ time_str.hour # 12 THEN time_str.hour + 12
                        ELSE IF time_str.mer = "AM" /\ time_str.hour = 12 THEN 0
                        ELSE time_str.hour
           IN hours * 60 + time_str.minute
      ELSE time_str.hour * 60 + time_str.minute

\* variant: the hour after midnight is written '0:MM AM'
RT_minutes_to_time_str_zero_hour(minutes) ==
    LET hours == minutes \div 60
        mins  == minutes % 60
    IN IF hours < 12 THEN Str12(hours, mins, "AM")
       ELSE IF hours = 12 THEN Str12(12, mins, "PM")
       ELSE Str12(hours - 12, mins, "PM")

RT_minutes_to_time_str(minutes) ==
    LET hours == minutes \div 60
        mins  == minutes % 60
    IN IF hours = 0 THEN Str12(12, mins, "AM")
       ELSE IF hours < 12 THEN Str12(hours, mins, "AM")
       ELSE IF hours = 12 THEN Str12(12, mins, "PM")
       ELSE Str12(hours - 12, mins, "PM")

\* the remainders of one time_range, filtered and formatted
RT_range_remainders(time_range, busy) ==
    LET current_ranges ==
            SubtractAll(<< <<RT_time_to_minutes(time_range.start), RT_time_to_minutes(time_range.end)>> >>, busy)
        kept == SelectSeq(current_ranges, LAMBDA p : p[2] - p[1] >= RT_MIN_DURATION)
    IN [i \in 1 .. Len(kept) |->
          Range(RT_minutes_to_time_str(kept[i][1]), RT_minutes_to_time_str(kept[i][2]))]

RT_subtract_busy_times_from_ranges(time_ranges, busy_times) ==
    LET busy == [i \in 1 .. Len(busy_times) |->
                    <<RT_time_to_minutes(busy_times[i].start), RT_time_to_minutes(busy_times[i].end)>>]
    IN FlattenSeq([i \in 1 .. Len(time_ranges) |-> RT_range_remainders(time_ranges[i], busy)])

----------------------------------------------------------------------------
(* GoogleCalendarScheduler._subtract_busy_times_from_ranges *)

\* int() of 'MM AM' raises ValueError
ParseError == -1

GS_time_to_minutes(time_str) ==
    IF time_str.enc = "12h" THEN ParseError
    ELSE time_str.hour * 60 + time_str.minute

GS_minutes_to_time_str(minutes) == Str24(minutes)

\* the call raises when a range start or end does not parse
GS_subtract_raises(time_ranges) ==
    \E i \in 1 .. Len(time_ranges) :
        \/ GS_time_to_minutes(time_ranges[i].start) = ParseError
        \/ GS_time_to_minutes(time_ranges[i].end) = ParseError

\* the remainders of one time_range, filtered and formatted
GS_range_remainders(time_range, busy) ==
    LET current_ranges ==
            SubtractAll(<< <<GS_time_to_minutes(time_range.start), GS_time_to_minutes(time_range.end)>> >>, busy)
        kept == SelectSeq(current_ranges, LAMBDA p : p[2] - p[1] >= GS_MIN_DURATION)
    IN [i \in 1 .. Len(kept) |->
          Range(GS_minutes_to_time_str(kept[i][1]), GS_minutes_to_time_str(kept[i][2]))]

GS_subtract_busy_times_from_ranges(time_ranges, busy_times) ==
    LET busy == [i \in 1 .. Len(busy_times) |->
                    <<GS_time_to_minutes(busy_times[i].start), GS_time_to_minutes(busy_times[i].end)>>]
    IN FlattenSeq([i \in 1 .. Len(time_ranges) |-> GS_range_remainders(time_ranges[i], busy)])

----------------------------------------------------------------------------
(* Busy periods *)

\* a busy period as the adapters return it: start and end datetimes
Period(sd, sm, ed, em) == [start |-> DateTime(sd, sm), end |-> DateTime(ed, em)]

\* get_busy_times(user_id, week_start 00:00, week_end 23:59:59): the periods
\* of the provider's calendar that fall in the week
get_busy_times(calendar, week_start, week_end) ==
    SelectSeq(calendar, LAMBDA p : DateOf(p.start) <= week_end /\ DateOf(p.end) >= week_start)

\* day_busy_times: the periods that span current_date, cut to that day
DayBusyTimes(busy_times, current_date) ==
    LET spans == SelectSeq(busy_times,
                    LAMBDA p : DateOf(p.start) <= current_date /\ current_date <= DateOf(p.end))
    IN [i \in 1 .. Len(spans) |->
          [start |-> IF DateOf(spans[i].start) = current_date THEN TimeOf(spans[i].start) ELSE min_time,
           end   |-> IF DateOf(spans[i].end) = current_date THEN TimeOf(spans[i].end) ELSE max_time]]

----------------------------------------------------------------------------
(* Day records *)

DayData(available, start, end, time_ranges, all_day) ==
    [available |-> available, start |-> start, end |-> end,
     time_ranges |-> time_ranges, all_day |-> all_day]

\* existing_day_data.get('time_ranges', []) with the fallback to the single range
ExistingTimeRanges(existing_day_data) ==
    IF Get(existing_day_data, "time_ranges", <<>>) # <<>>
      THEN existing_day_data.time_ranges
      ELSE << Range(Get(existing_day_data, "start", Str24(540)),
                    Get(existing_day_data, "end", Str24(1020))) >>

\* the day's entry once the remaining ranges are known
AdjustedDay(existing_day_data, available_ranges) ==
    IF available_ranges # <<>>
      THEN DayData(TRUE, available_ranges[1].start, available_ranges[1].end, available_ranges, FALSE)
      ELSE DayData(FALSE, Get(existing_day_data, "start", Str24(540)),
                   Get(existing_day_data, "end", Str24(1020)), <<>>, FALSE)

\* existing_availability.get_day_availability(day_name), {} without a row
StoredDayOf(table, week_start, day_name) ==
    get_day_availability(get_or_create_availability(table, week_start), day_name)

\* the offset of a day name in the week that starts on week_start
OffsetOf(week_start, day_name) == CHOOSE off \in 0 .. 6 : DayName(week_start + off) = day_name

\* existing_data[day_name] = day_data for every day of availability_data
MergeDays(existing_data, availability_data) ==
    [n \in DOMAIN existing_data \cup DOMAIN availability_data |->
        IF n \in DOMAIN availability_data THEN availability_data[n] ELSE existing_data[n]]

----------------------------------------------------------------------------
(* CalendarScheduler *)

\* variant: a day that is not available is given the default 9-5
CS_day_entry_default_available(existing_day_data, day_busy_times) ==
    AdjustedDay(existing_day_data,
        CS_subtract_busy_times_from_ranges(ExistingTimeRanges(existing_day_data), day_busy_times))

\* the entry of one day that has busy times
CS_day_entry(existing_day_data, day_busy_times) ==
    IF Get(existing_day_data, "available", FALSE)
      THEN AdjustedDay(existing_day_data,
               CS_subtract_busy_times_from_ranges(ExistingTimeRanges(existing_day_data), day_busy_times))
      ELSE existing_day_data

\* variant: a day with no busy times is rewritten as well
CS_day_skipped_only_unset(existing_day_data, day_busy_times) ==
    ~Get(existing_day_data, "available", FALSE) /\ existing_day_data = EmptyObj

\* days with no busy times are skipped, and so are days without existing data
\* that are not available
CS_day_skipped(existing_day_data, day_busy_times) ==
    \/ day_busy_times = <<>>
    \/ (~Get(existing_day_data, "available", FALSE) /\ existing_day_data = EmptyObj)

CS_convert_busy_times_to_availability_format(busy_times, week_start, table) ==
    LET existing_availability == IF week_start \in DOMAIN table THEN table[week_start] ELSE EmptyObj
        existing(off) == get_day_availability(existing_availability, DayName(week_start + off))
        busy(off) == DayBusyTimes(busy_times, week_start + off)
        written == {off \in 0 .. 6 : ~CS_day_skipped(existing(off), busy(off))}
    IN [n \in {DayName(week_start + off) : off \in written} |->
          CS_day_entry(existing(OffsetOf(week_start, n)), busy(OffsetOf(week_start, n)))]

\* one iteration of the week loop of the three _sync_user_* passes
CS_sync_week(table, calendar, week_start) ==
    LET busy_times == get_busy_times(calendar, week_start, week_start + 6)
        availability_data == CS_convert_busy_times_to_availability_format(busy_times, week_start, table)
    IN MergeDays(get_or_create_availability(table, week_start), availability_data)

WeekStarts == {7 * week_offset : week_offset \in Weeks}

CS_sync_user(table, calendar) == [week_start \in WeekStarts |-> CS_sync_week(table, calendar, week_start)]
----------------------------------------------------------------------------
(* The on-demand routes sync_from_google_calendar, sync_from_outlook_calendar *)

\* every day gets an entry
RT_day_entry(existing_day_data, day_busy_times) ==
    IF Get(existing_day_data, "available", FALSE)
      THEN AdjustedDay(existing_day_data,
               RT_subtract_busy_times_from_ranges(ExistingTimeRanges(existing_day_data), day_busy_times))
      ELSE IF existing_day_data # EmptyObj
        THEN existing_day_data
        ELSE DayData(FALSE, Str24(540), Str24(1020), <<>>, FALSE)

RT_convert_busy_times_to_availability(busy_times, week_start, table) ==
    LET existing_availability == IF week_start \in DOMAIN table THEN table[week_start] ELSE EmptyObj
    IN [n \in {DayName(week_start + off) : off \in 0 .. 6} |->
          RT_day_entry(get_day_availability(existing_availability, n),
                       DayBusyTimes(busy_times, week_start + OffsetOf(week_start, n)))]

\* the week loop: set_availability_data(availability_data) replaces the week
RT_sync_user(table, calendar) ==
    [week_start \in WeekStarts |->
        RT_convert_busy_times_to_availability(
            get_busy_times(calendar, week_start, week_start + 6), week_start, table)]

----------------------------------------------------------------------------
(* GoogleCalendarScheduler *)

GS_day_entry(existing_day_data, day_busy_times, current_date) ==
    IF Get(existing_day_data, "available", FALSE)
      THEN AdjustedDay(existing_day_data,
               GS_subtract_busy_times_from_ranges(ExistingTimeRanges(existing_day_data), day_busy_times))
      ELSE LET is_weekday == (current_date % 7) < 5
           IN IF is_weekday /\ day_busy_times = <<>>
                THEN DayData(TRUE, Str24(540), Str24(1020), << Range(Str24(540), Str24(1020)) >>, FALSE)
                ELSE DayData(FALSE, Str24(540), Str24(1020), <<>>, FALSE)

\* the conversion of a week raises when a range of an available day does not parse
GS_convert_raises(week_start, table) ==
    LET existing_availability == IF week_start \in DOMAIN table THEN table[week_start] ELSE EmptyObj
    IN \E off \in 0 .. 6 :
          LET existing_day_data == get_day_availability(existing_availability, DayName(week_start + off))
          IN /\ Get(existing_day_data, "available", FALSE)
             /\ GS_subtract_raises(ExistingTimeRanges(existing_day_data))

GS_convert_busy_times_to_availability_format(busy_times, week_start, table) ==
    LET existing_availability == IF week_start \in DOMAIN table THEN table[week_start] ELSE EmptyObj
    IN [n \in {DayName(week_start + off) : off \in 0 .. 6} |->
          GS_day_entry(get_day_availability(existing_availability, n),
                       DayBusyTimes(busy_times, week_start + OffsetOf(week_start, n)),
                       week_start + OffsetOf(week_start, n))]

\* the week loop of _sync_user_availability: a week that raises is counted
\* as an error and left as it was
GS_sync_user(table, calendar) ==
    LET synced == {week_start \in WeekStarts : ~GS_convert_raises(week_start, table)}
    IN [week_start \in synced \cup DOMAIN table |->
          IF week_start \in synced
            THEN GS_convert_busy_times_to_availability_format(
                     get_busy_times(calendar, week_start, week_start + 6), week_start, table)
            ELSE table[week_start]]
----------------------------------------------------------------------------
(* Inputs: what the user stored and what the provider calendars hold *)

\* day records as the manual edits store them
Unavailable      == [available |-> FALSE]
UnavailableFull  == DayData(FALSE, Str24(540), Str24(1020), <<>>, FALSE)
LegacyNineToFive == [available |-> TRUE, start |-> Str24(540), end |-> Str24(1020), all_day |-> FALSE]
NineToFive       == DayData(TRUE, Str24(540), Str24(1020), << Range(Str24(540), Str24(1020)) >>, FALSE)
HalfHour         == DayData(TRUE, Str24(540), Str24(570), << Range(Str24(540), Str24(570)) >>, FALSE)
Unsorted         == DayData(TRUE, Str24(780), Str24(1020),
                            << Range(Str24(780), Str24(1020)), Range(Str24(540), Str24(720)) >>, FALSE)
Overlapping      == DayData(TRUE, Str24(540), Str24(780),
                            << Range(Str24(540), Str24(780)), Range(Str24(720), Str24(1020)) >>, FALSE)
AllDay           == [available |-> TRUE, start |-> Str24(0), end |-> Str24(1439), all_day |-> TRUE]

MondaySamples  == {Unavailable, UnavailableFull, LegacyNineToFive, NineToFive, HalfHour, Unsorted}
WeekendSamples == {Unavailable, NineToFive, Overlapping, AllDay}

\* the weeks a user can have stored for the current week: nothing, a Monday,
\* or a Monday with a weekend
InitWeeks ==
    {EmptyObj}
    \cup {("monday" :> m) : m \in MondaySamples}
    \cup {("monday" :> NineToFive) @@ ("saturday" :> d) : d \in WeekendSamples}
    \cup {("monday" :> Unavailable) @@ ("saturday" :> AllDay) @@ ("sunday" :> NineToFive)}

\* the table: no row at all, or a row for the current week
InitTables == {EmptyObj} \cup {0 :> data : data \in InitWeeks}

\* busy periods of the provider calendars (day 0 is the Monday of the current week)
SampleBusy == { Period(0, 600, 0, 660),     \* Monday 10:00-11:00
                Period(0, 630, 0, 720),     \* Monday 10:30-12:00, overlaps the first
                Period(0, 555, 0, 1019),    \* Monday 9:15-16:59
                Period(5, 600, 6, 660) }    \* Saturday 10:00 to Sunday 11:00

\* the periods of a calendar in the order the provider returns them: by start
Earlier(p, q) ==
    \/ p.start.day < q.start.day
    \/ p.start.day = q.start.day /\ p.start.minute < q.start.minute
    \/ p.start = q.start /\ p.end.day < q.end.day
    \/ p.start = q.start /\ p.end.day = q.end.day /\ p.end.minute <= q.end.minute

RECURSIVE CalendarList(_)
CalendarList(calendar) ==
    IF calendar = {} THEN <<>>
    ELSE LET first == CHOOSE p \in calendar : \A q \in calendar : Earlier(p, q)
         IN <<first>> \o CalendarList(calendar \ {first})

----------------------------------------------------------------------------
(* The state machine *)

\* the state outside the week-by-week sync passes: no default schedule
\* saved, no request in progress, nothing reported, no adapter called
Procs == {"p1", "p2"}

Idle == [pc |-> "idle"]

NoOutcome == [op |-> "none"]

NoAdapterCall == [adapter |-> "none"]

NoFunctionCall == [function |-> "none"]

NoJob == [job |-> "none"]

others == <<default_schedules, availability_rows, session, outcome, adapter_call, function_call, job>>

OthersAtRest ==
    /\ default_schedules = <<>>
    /\ availability_rows = <<>>
    /\ session = [p \in Procs |-> Idle]
    /\ outcome = NoOutcome
    /\ adapter_call = NoAdapterCall
    /\ function_call = NoFunctionCall
    /\ job = NoJob

\* no call of the subtraction on its own
NoCall == [impl |-> "none", time_ranges |-> <<>>, busy_times |-> <<>>, raised |-> FALSE, returned |-> <<>>]

\* the calendars: at most MaxBusy periods in all; a provider that is not
\* connected contributes none
Calendars ==
    {c \in [google : SUBSET SampleBusy, outlook : SUBSET SampleBusy] :
        Cardinality(c.google) + Cardinality(c.outlook) <= MaxBusy}

Init ==
    /\ availability \in InitTables
    /\ sync_enabled \in [google : BOOLEAN, outlook : BOOLEAN]
    /\ \E c \in Calendars :
          /\ (c.google # {} => sync_enabled.google)
          /\ (c.outlook # {} => sync_enabled.outlook)
          /\ google_calendar = c.google
          /\ outlook_calendar = c.outlook
    /\ lastOp = "none"
    /\ prev = availability
    /\ subtract_call = NoCall
    /\ OthersAtRest

\* CalendarScheduler._sync_user_google_calendar
sync_user_google_calendar ==
    /\ sync_enabled.google
    /\ availability' = CS_sync_user(availability, CalendarList(google_calendar))
    /\ lastOp' = "sync_user_google_calendar"
    /\ prev' = availability
    /\ UNCHANGED <<google_calendar, outlook_calendar, sync_enabled, subtract_call, others>>

\* CalendarScheduler._sync_user_outlook_calendar
sync_user_outlook_calendar ==
    /\ sync_enabled.outlook
    /\ availability' = CS_sync_user(availability, CalendarList(outlook_calendar))
    /\ lastOp' = "sync_user_outlook_calendar"
    /\ prev' = availability
    /\ UNCHANGED <<google_calendar, outlook_calendar, sync_enabled, subtract_call, others>>

\* variant: the Outlook busy times are left out
combined_busy_times_google_only(google, outlook) == CalendarList(google)

\* combined_busy_times: the Google periods, then the Outlook periods
combined_busy_times(google, outlook) == CalendarList(google) \o CalendarList(outlook)

\* CalendarScheduler._sync_user_unified_calendars
sync_user_unified_calendars ==
    /\ sync_enabled.google /\ sync_enabled.outlook
    /\ availability' = CS_sync_user(availability, combined_busy_times(google_calendar, outlook_calendar))
    /\ lastOp' = "sync_user_unified_calendars"
    /\ prev' = availability
    /\ UNCHANGED <<google_calendar, outlook_calendar, sync_enabled, subtract_call, others>>

\* routes/availability.py sync_from_google_calendar
sync_from_google_calendar ==
    /\ sync_enabled.google
    /\ availability' = RT_sync_user(availability, CalendarList(google_calendar))
    /\ lastOp' = "sync_from_google_calendar"
    /\ prev' = availability
    /\ UNCHANGED <<google_calendar, outlook_calendar, sync_enabled, subtract_call, others>>

\* routes/availability.py sync_from_outlook_calendar
sync_from_outlook_calendar ==
    /\ sync_enabled.outlook
    /\ availability' = RT_sync_user(availability, CalendarList(outlook_calendar))
    /\ lastOp' = "sync_from_outlook_calendar"
    /\ prev' = availability
    /\ UNCHANGED <<google_calendar, outlook_calendar, sync_enabled, subtract_call, others>>

\* GoogleCalendarScheduler._sync_user_availability
GS_sync_user_availability ==
    /\ sync_enabled.google
    /\ availability' = GS_sync_user(availability, CalendarList(google_calendar))
    /\ lastOp' = "GS_sync_user_availability"
    /\ prev' = availability
    /\ UNCHANGED <<google_calendar, outlook_calendar, sync_enabled, subtract_call, others>>

Next ==
    \/ sync_user_google_calendar
    \/ sync_user_outlook_calendar
    \/ sync_user_unified_calendars
    \/ sync_from_google_calendar
    \/ sync_from_outlook_calendar
    \/ GS_sync_user_availability

Spec == Init /\ [][Next]_vars
----------------------------------------------------------------------------
(* _subtract_busy_times_from_ranges on its own: the three copies called on
   the ranges and busy times of one day *)

TimePoints == {540, 555, 600, 660, 1019, 1020}

\* ranges as manual edits store them ('HH:MM') and as a sync pass stores them
RangeLists ==
    {<< Range(Str24(p[1]), Str24(p[2])) >> : p \in {q \in TimePoints \X TimePoints : q[1] < q[2]}}
    \cup {<< Range(CS_minutes_to_time_str(540), CS_minutes_to_time_str(1020)) >>,
          << Range(CS_minutes_to_time_str(600), CS_minutes_to_time_str(660)) >>,
          << Range(Str24(540), Str24(600)), Range(Str24(660), Str24(1020)) >>,
          << Range(Str24(660), Str24(1020)), Range(Str24(540), Str24(600)) >>,
          << Range(Str24(540), Str24(660)), Range(Str24(600), Str24(1020)) >>}

\* busy times of a day: time objects with start <= end
DayBusySamples ==
    {[start |-> TimeObj(p[1] \div 60, p[1] % 60), end |-> TimeObj(p[2] \div 60, p[2] % 60)] :
        p \in {q \in TimePoints \X TimePoints : q[1] <= q[2]}}

DayBusyLists == UNION {[1 .. n -> DayBusySamples] : n \in 0 .. MaxDayBusy}

InitSubtract ==
    /\ availability = EmptyObj
    /\ google_calendar = {}
    /\ outlook_calendar = {}
    /\ sync_enabled = [google |-> FALSE, outlook |-> FALSE]
    /\ lastOp = "none"
    /\ prev = EmptyObj
    /\ OthersAtRest
    /\ \E time_ranges \in RangeLists, busy_times \in DayBusyLists :
          subtract_call = [impl |-> "none", time_ranges |-> time_ranges, busy_times |-> busy_times,
                           raised |-> FALSE, returned |-> <<>>]

\* CalendarScheduler._subtract_busy_times_from_ranges(time_ranges, busy_times)
CS_subtract_call ==
    /\ subtract_call.impl = "none"
    /\ subtract_call' = [subtract_call EXCEPT
          !.impl = "CS",
          !.returned = CS_subtract_busy_times_from_ranges(subtract_call.time_ranges, subtract_call.busy_times)]
    /\ UNCHANGED <<availability, google_calendar, outlook_calendar, sync_enabled, lastOp, prev, others>>

\* routes/availability.py _subtract_busy_times_from_ranges(time_ranges, busy_times)
RT_subtract_call ==
    /\ subtract_call.impl = "none"
    /\ subtract_call' = [subtract_call EXCEPT
          !.impl = "RT",
          !.returned = RT_subtract_busy_times_from_ranges(subtract_call.time_ranges, subtract_call.busy_times)]
    /\ UNCHANGED <<availability, google_calendar, outlook_calendar, sync_enabled, lastOp, prev, others>>

\* GoogleCalendarScheduler._subtract_busy_times_from_ranges(time_ranges, busy_times)
GS_subtract_call ==
    /\ subtract_call.impl = "none"
    /\ subtract_call' = [subtract_call EXCEPT
          !.impl = "GS",
          !.raised = GS_subtract_raises(subtract_call.time_ranges),
          !.returned = IF GS_subtract_raises(subtract_call.time_ranges) THEN <<>>
                       ELSE GS_subtract_busy_times_from_ranges(subtract_call.time_ranges,
                                                               subtract_call.busy_times)]
    /\ UNCHANGED <<availability, google_calendar, outlook_calendar, sync_enabled, lastOp, prev, others>>

NextSubtract == CS_subtract_call \/ RT_subtract_call \/ GS_subtract_call

SpecSubtract == InitSubtract /\ [][NextSubtract]_vars

----------------------------------------------------------------------------
(* Manual edits and the default schedule *)

DEFAULT_MAX_WEEKS == 52     \* _apply_default_to_future_weeks(..., max_weeks=52)

\* start_time=None, end_time=None
None == [enc |-> "None", hour |-> 0, minute |-> 0, mer |-> ""]

\* variant: an available day is stored without its start and end
UpdatedDay_without_times(available, start_time, end_time, all_day) == [available |-> available]

\* day_data of Availability.update_day_availability
UpdatedDay(available, start_time, end_time, all_day) ==
    IF ~available THEN [available |-> FALSE]
    ELSE IF all_day
      THEN [available |-> TRUE, start |-> Str24(0), end |-> Str24(1439), all_day |-> TRUE]
      ELSE [available |-> TRUE,
            start |-> IF start_time = None THEN Str24(540) ELSE start_time,
            end   |-> IF end_time = None THEN Str24(1020) ELSE end_time,
            all_day |-> FALSE]

\* Availability.update_day_availability on the row of week_start
update_day_availability(week_start, day_name, available, start_time, end_time, all_day) ==
    /\ week_start \in DOMAIN availability
    /\ availability' = [availability EXCEPT ![week_start] =
                           MergeDays(@, day_name :> UpdatedDay(available, start_time, end_time, all_day))]
    /\ lastOp' = "update_day_availability"
    /\ prev' = availability
    /\ outcome' = NoOutcome
    /\ UNCHANGED <<google_calendar, outlook_calendar, sync_enabled, subtract_call,
                   default_schedules, availability_rows, session, adapter_call, function_call, job>>

\* the row of a week after get_or_create_availability: created with {} when missing
WithRow(table, week_start) ==
    IF week_start \in DOMAIN table THEN table
    ELSE [w \in DOMAIN table \cup {week_start} |-> IF w = week_start THEN EmptyObj ELSE table[w]]

\* variant: the rows that were active stay active
Activate_without_deactivating(schedules, schedule_data) ==
    Append(schedules, [schedule_data |-> schedule_data, is_active |-> TRUE])

\* existing.is_active = False for every active row, then the new active row
Activate(schedules, schedule_data) ==
    Append([i \in 1 .. Len(schedules) |-> [schedules[i] EXCEPT !.is_active = FALSE]],
           [schedule_data |-> schedule_data, is_active |-> TRUE])

\* DefaultSchedule.get_active_default: the first active row, if any
ActiveDefaults(schedules) == SelectSeq(schedules, LAMBDA d : d.is_active)

\* variant: range(0, max_weeks)
ApplyWeeks_exclusive(max_weeks) == {7 * week_offset : week_offset \in 0 .. (max_weeks - 1)}

\* the weeks _apply_default_to_future_weeks goes through: range(0, max_weeks + 1)
ApplyWeeks(max_weeks) == {7 * week_offset : week_offset \in 0 .. max_weeks}

NoWeek == -1

\* _apply_default_to_future_weeks: every week of the range is set to the
\* schedule data and the whole is committed at the end; an exception in the
\* loop is logged and the session rolled back
apply_default_to_future_weeks(table, schedule_data, max_weeks, raises_at) ==
    IF raises_at \in ApplyWeeks(max_weeks)
      THEN table
      ELSE [w \in DOMAIN table \cup ApplyWeeks(max_weeks) |->
               IF w \in ApplyWeeks(max_weeks) THEN schedule_data ELSE table[w]]

\* save_default_schedule: availability_data of the request, or the stored
\* week when the request carries none
save_default_schedule(week_offset, availability_data, raises_at) ==
    LET from_request == availability_data # EmptyObj
        week_start == 7 * week_offset
        table == IF from_request THEN availability ELSE WithRow(availability, week_start)
        schedule_data == IF from_request THEN availability_data ELSE table[week_start]
    IN /\ default_schedules' = Activate(default_schedules, schedule_data)
       /\ availability' = apply_default_to_future_weeks(table, schedule_data, DEFAULT_MAX_WEEKS, raises_at)
       /\ outcome' = [op |-> "save_default_schedule", success |-> TRUE, status |-> 200,
                      raised_at |-> raises_at, schedule_data |-> schedule_data]
       /\ lastOp' = "save_default_schedule"
       /\ prev' = availability
       /\ UNCHANGED <<google_calendar, outlook_calendar, sync_enabled, subtract_call,
                      availability_rows, session, adapter_call, function_call, job>>

\* get_week_availability: a week without a row gets the active default
get_week_availability(week_offset) ==
    /\ IF 7 * week_offset \notin DOMAIN availability /\ ActiveDefaults(default_schedules) # <<>>
         THEN availability' = [w \in DOMAIN availability \cup {7 * week_offset} |->
                                  IF w = 7 * week_offset
                                    THEN Head(ActiveDefaults(default_schedules)).schedule_data
                                    ELSE availability[w]]
         ELSE availability' = availability
    /\ outcome' = [op |-> "get_week_availability",
                   availability_data |-> get_or_create_availability(availability', 7 * week_offset)]
    /\ lastOp' = "get_week_availability"
    /\ prev' = availability
    /\ UNCHANGED <<google_calendar, outlook_calendar, sync_enabled, subtract_call,
                   default_schedules, availability_rows, session, adapter_call, function_call, job>>

----------------------------------------------------------------------------
(* Day-by-day edits, default schedules saved from the stored week, and the
   CalendarScheduler passes *)

EditWeeks == {0}

EditDays == {"monday"}

\* (available, start_time, end_time, all_day) of a call of update_day_availability
EditChoices ==
    { <<FALSE, None, None, FALSE>>,
      <<TRUE, None, None, FALSE>>,
      <<TRUE, Str24(600), Str24(645), FALSE>>,
      <<TRUE, None, None, TRUE>> }

DayCalendars ==
    {c \in Calendars : /\ c.google \in {{Period(0, 600, 0, 660)}, {Period(0, 555, 0, 1019)}}
                       /\ c.outlook \subseteq {Period(0, 630, 0, 720)}}

InitDay ==
    /\ availability \in {EmptyObj, 0 :> EmptyObj}
    /\ sync_enabled = [google |-> TRUE, outlook |-> TRUE]
    /\ \E c \in DayCalendars : google_calendar = c.google /\ outlook_calendar = c.outlook
    /\ lastOp = "none"
    /\ prev = availability
    /\ subtract_call = NoCall
    /\ OthersAtRest

NextDay ==
    \/ \E week_start \in EditWeeks, day_name \in EditDays, c \in EditChoices :
          update_day_availability(week_start, day_name, c[1], c[2], c[3], c[4])
    \/ \E week_offset \in {0, 1} :
          Len(default_schedules) < MaxDaySaves /\ save_default_schedule(week_offset, EmptyObj, NoWeek)
    \/ sync_user_google_calendar
    \/ sync_user_outlook_calendar
    \/ sync_user_unified_calendars

SpecDay == InitDay /\ [][NextDay]_vars

----------------------------------------------------------------------------
(* Default schedules saved one after another over weeks edited by hand *)

\* submit_availability: the week's data is replaced by the request's
submit_availability(week_start, availability_data) ==
    /\ availability' = [w \in DOMAIN availability \cup {week_start} |->
                           IF w = week_start THEN availability_data ELSE availability[w]]
    /\ outcome' = [op |-> "submit_availability", success |-> TRUE]
    /\ lastOp' = "submit_availability"
    /\ prev' = availability
    /\ UNCHANGED <<google_calendar, outlook_calendar, sync_enabled, subtract_call,
                   default_schedules, availability_rows, session, adapter_call, function_call, job>>

\* availability_data of a request
RequestData ==
    { "monday" :> NineToFive,
      ("monday" :> Unavailable) @@ ("saturday" :> AllDay) }

\* the week of the loop in which an exception is raised, if any
RaisePoints == {NoWeek, 0, 14, 7 * DEFAULT_MAX_WEEKS}

InitDefault ==
    /\ availability \in {EmptyObj, 0 :> ("monday" :> HalfHour),
                         (7 :> ("monday" :> Unsorted)) @@ (7 * (DEFAULT_MAX_WEEKS + 1) :> ("sunday" :> NineToFive))}
    /\ sync_enabled = [google |-> FALSE, outlook |-> FALSE]
    /\ google_calendar = {}
    /\ outlook_calendar = {}
    /\ lastOp = "none"
    /\ prev = availability
    /\ subtract_call = NoCall
    /\ OthersAtRest

NextDefault ==
    \/ \E week_offset \in {0, 1}, availability_data \in RequestData \cup {EmptyObj}, raises_at \in RaisePoints :
          Len(default_schedules) < MaxDefaults
            /\ save_default_schedule(week_offset, availability_data, raises_at)
    \/ \E week_offset \in {0, DEFAULT_MAX_WEEKS + 2} : get_week_availability(week_offset)
    \/ \E availability_data \in RequestData : submit_availability(7, availability_data)

SpecDefault == InitDefault /\ [][NextDefault]_vars

----------------------------------------------------------------------------
(* The CalendarScheduler passes over stored weeks that make a week raise:
   a stored time that is neither 'HH:MM' nor 'H:MM AM/PM' makes
   time_to_minutes raise ValueError, which the try/except around the week
   catches *)

Malformed == [enc |-> "malformed", hour |-> 0, minute |-> 0, mer |-> ""]

MalformedDay == DayData(TRUE, Malformed, Str24(1020), << Range(Malformed, Str24(1020)) >>, FALSE)

\* _subtract_busy_times_from_ranges raises on a range start or end that does not parse
CS_subtract_raises(time_ranges) ==
    \E i \in 1 .. Len(time_ranges) : Malformed \in {time_ranges[i].start, time_ranges[i].end}

\* the week raises: an available day with busy times has such a range
CS_week_raises(table, calendar, week_start) ==
    LET busy_times == get_busy_times(calendar, week_start, week_start + 6)
    IN \E off \in 0 .. 6 :
          LET existing_day_data == StoredDayOf(table, week_start, DayName(week_start + off))
          IN /\ DayBusyTimes(busy_times, week_start + off) # <<>>
             /\ Get(existing_day_data, "available", FALSE)
             /\ CS_subtract_raises(ExistingTimeRanges(existing_day_data))

\* variant: the first week that raises ends the loop
CS_sync_user_weeks_stop_at_raise(table, calendar) ==
    LET done == {w \in WeekStarts : \A v \in WeekStarts : v <= w => ~CS_week_raises(table, calendar, v)}
    IN [w \in DOMAIN table \cup done |-> IF w \in done THEN CS_sync_week(table, calendar, w) ELSE table[w]]

\* the week loop with its try/except: a week that raises is counted as an
\* error and left as it was, the others are reconciled
CS_sync_user_weeks(table, calendar) ==
    LET done == {w \in WeekStarts : ~CS_week_raises(table, calendar, w)}
    IN [w \in DOMAIN table \cup done |-> IF w \in done THEN CS_sync_week(table, calendar, w) ELSE table[w]]

\* success_count > 0
CS_sync_user_returns(table, calendar) == \E w \in WeekStarts : ~CS_week_raises(table, calendar, w)

\* _sync_user_google_calendar, _sync_user_outlook_calendar and
\* _sync_user_unified_calendars with what they return
sync_user_pass(op, enabled, calendar) ==
    /\ enabled
    /\ availability' = CS_sync_user_weeks(availability, calendar)
    /\ outcome' = [op |-> op, returned |-> CS_sync_user_returns(availability, calendar)]
    /\ lastOp' = op
    /\ prev' = availability
    /\ UNCHANGED <<google_calendar, outlook_calendar, sync_enabled, subtract_call,
                   default_schedules, availability_rows, session, adapter_call, function_call, job>>

sync_user_google_calendar_returning ==
    sync_user_pass("sync_user_google_calendar_returning", sync_enabled.google, CalendarList(google_calendar))

sync_user_outlook_calendar_returning ==
    sync_user_pass("sync_user_outlook_calendar_returning", sync_enabled.outlook, CalendarList(outlook_calendar))

sync_user_unified_calendars_returning ==
    sync_user_pass("sync_user_unified_calendars_returning", sync_enabled.google /\ sync_enabled.outlook,
                   combined_busy_times(google_calendar, outlook_calendar))

\* Monday 10:00-11:00 of each of the four weeks
WeekMondays == {Period(w, 600, w, 660) : w \in WeekStarts}

InitPass ==
    /\ availability \in [WeekStarts -> {"monday" :> NineToFive, "monday" :> MalformedDay}]
    /\ sync_enabled = [google |-> TRUE, outlook |-> TRUE]
    /\ google_calendar \in SUBSET WeekMondays
    /\ outlook_calendar \in {{}, {Period(7, 630, 7, 720)}}
    /\ lastOp = "none"
    /\ prev = availability
    /\ subtract_call = NoCall
    /\ OthersAtRest

NextPass ==
    \/ sync_user_google_calendar_returning
    \/ sync_user_outlook_calendar_returning
    \/ sync_user_unified_calendars_returning

SpecPass == InitPass /\ [][NextPass]_vars

----------------------------------------------------------------------------
(* Requests and jobs of one user that overlap in time.  Each has its own
   database session: it sees what was committed when it reads, and its
   writes reach the tables when it commits. *)

\* save_default_schedule up to the query of the active rows (line 589)
save_default_read(p, availability_data) ==
    /\ session[p] = Idle
    /\ session' = [session EXCEPT ![p] =
          [pc |-> "save_default_read", schedule_data |-> availability_data,
           existing_defaults |-> {i \in 1 .. Len(default_schedules) : default_schedules[i].is_active}]]
    /\ lastOp' = "save_default_read"
    /\ prev' = availability
    /\ UNCHANGED <<availability, google_calendar, outlook_calendar, sync_enabled, subtract_call,
                   default_schedules, availability_rows, outcome, adapter_call, function_call, job>>

\* lines 590-602: the rows read are deactivated, the new row is added, commit
save_default_commit(p) ==
    /\ session[p].pc = "save_default_read"
    /\ default_schedules' =
          Append([i \in 1 .. Len(default_schedules) |->
                     IF i \in session[p].existing_defaults
                       THEN [default_schedules[i] EXCEPT !.is_active = FALSE]
                       ELSE default_schedules[i]],
                 [schedule_data |-> session[p].schedule_data, is_active |-> TRUE])
    /\ session' = [session EXCEPT ![p].pc = "save_default_apply"]
    /\ lastOp' = "save_default_commit"
    /\ prev' = availability
    /\ UNCHANGED <<availability, google_calendar, outlook_calendar, sync_enabled, subtract_call,
                   availability_rows, outcome, adapter_call, function_call, job>>

\* line 606: _apply_default_to_future_weeks, committed as a whole
save_default_apply(p) ==
    /\ session[p].pc = "save_default_apply"
    /\ availability' = apply_default_to_future_weeks(availability, session[p].schedule_data,
                                                    DEFAULT_MAX_WEEKS, NoWeek)
    /\ session' = [session EXCEPT ![p] = Idle]
    /\ outcome' = [op |-> "save_default_schedule", success |-> TRUE, status |-> 200,
                   raised_at |-> NoWeek, schedule_data |-> session[p].schedule_data]
    /\ lastOp' = "save_default_apply"
    /\ prev' = availability
    /\ UNCHANGED <<google_calendar, outlook_calendar, sync_enabled, subtract_call,
                   default_schedules, availability_rows, adapter_call, function_call, job>>

\* _sync_user_google_calendar up to the commit of line 371: the rows of the
\* four weeks are read (created when missing) and their new data is set on
\* the session's objects
sync_user_google_calendar_read(p) ==
    /\ session[p] = Idle
    /\ sync_enabled.google
    /\ availability' = [w \in DOMAIN availability \cup WeekStarts |-> get_or_create_availability(availability, w)]
    /\ session' = [session EXCEPT ![p] =
          [pc |-> "sync_read", existing_data |-> availability',
           pending |-> CS_sync_user(availability, CalendarList(google_calendar))]]
    /\ lastOp' = "sync_user_google_calendar_read"
    /\ prev' = availability
    /\ UNCHANGED <<google_calendar, outlook_calendar, sync_enabled, subtract_call,
                   default_schedules, availability_rows, outcome, adapter_call, function_call, job>>

\* db.session.commit() of line 371: availability_data is written for the
\* rows on which the pass set a value other than the one it had loaded
sync_user_google_calendar_commit(p) ==
    /\ session[p].pc = "sync_read"
    /\ availability' = [w \in DOMAIN availability \cup WeekStarts |->
                           IF w \in WeekStarts /\ session[p].pending[w] # session[p].existing_data[w]
                             THEN session[p].pending[w]
                             ELSE availability[w]]
    /\ session' = [session EXCEPT ![p] = Idle]
    /\ outcome' = [op |-> "sync_user_google_calendar", returned |-> TRUE]
    /\ lastOp' = "sync_user_google_calendar_commit"
    /\ prev' = availability
    /\ UNCHANGED <<google_calendar, outlook_calendar, sync_enabled, subtract_call,
                   default_schedules, availability_rows, adapter_call, function_call, job>>

InitRace ==
    /\ availability = (0 :> (("monday" :> NineToFive) @@ ("saturday" :> Unavailable)))
    /\ sync_enabled = [google |-> TRUE, outlook |-> FALSE]
    /\ google_calendar \in {{}, {Period(0, 600, 0, 660)}}
    /\ outlook_calendar = {}
    /\ lastOp = "none"
    /\ prev = availability
    /\ subtract_call = NoCall
    /\ OthersAtRest

NextRace ==
    \/ \E p \in Procs : sync_user_google_calendar_read(p)
    \/ \E p \in Procs : sync_user_google_calendar_commit(p)
    \/ \E availability_data \in RequestData : submit_availability(0, availability_data)
    \/ \E c \in EditChoices : update_day_availability(0, "saturday", c[1], c[2], c[3], c[4])

SpecRace == InitRace /\ [][NextRace]_vars

InitSaveRace ==
    /\ availability \in {EmptyObj, 0 :> ("monday" :> HalfHour)}
    /\ sync_enabled = [google |-> FALSE, outlook |-> FALSE]
    /\ google_calendar = {}
    /\ outlook_calendar = {}
    /\ lastOp = "none"
    /\ prev = availability
    /\ subtract_call = NoCall
    /\ OthersAtRest

NextSaveRace ==
    \/ \E p \in Procs, availability_data \in RequestData :
          Len(default_schedules) + Cardinality({q \in Procs : session[q] # Idle}) < MaxRaceSaves
            /\ save_default_read(p, availability_data)
    \/ \E p \in Procs : save_default_commit(p)
    \/ \E p \in Procs : save_default_apply(p)
    \/ \E week_offset \in {0, DEFAULT_MAX_WEEKS + 2} : get_week_availability(week_offset)

SpecSaveRace == InitSaveRace /\ [][NextSaveRace]_vars

----------------------------------------------------------------------------
(* The Availability table row by row: every creation of a row is a query
   followed, when no row was found, by an INSERT that the table's
   UniqueConstraint('user_id', 'week_start_date') accepts or rejects *)

Row(week_start_date, availability_data) ==
    [week_start_date |-> week_start_date, availability_data |-> availability_data]

\* Availability.query.filter_by(user_id, week_start_date).first() is not None
RowExists(rows, week_start_date) == \E i \in 1 .. Len(rows) : rows[i].week_start_date = week_start_date

\* variant: the table has no unique constraint
InsertRows_unconstrained(rows, new_rows) == rows \o new_rows

\* db.session.add(...) and commit under unique_user_week: IntegrityError, and
\* nothing inserted, when a row of one of the weeks is already there
InsertRows(rows, new_rows) ==
    IF \E i \in 1 .. Len(new_rows) : RowExists(rows, new_rows[i].week_start_date)
      THEN rows
      ELSE rows \o new_rows

RowsFrame == <<availability, google_calendar, outlook_calendar, sync_enabled, subtract_call,
               default_schedules, adapter_call, function_call, job>>

\* the query of get_or_create_availability (sync pass, submit_availability)
get_or_create_query(p, week_start_date) ==
    /\ session[p] = Idle
    /\ session' = [session EXCEPT ![p] =
          IF RowExists(availability_rows, week_start_date) THEN Idle
          ELSE [pc |-> "get_or_create_insert", week_start_date |-> week_start_date]]
    /\ outcome' = [op |-> "get_or_create_availability", raised |-> FALSE]
    /\ lastOp' = "get_or_create_query"
    /\ UNCHANGED <<availability_rows, prev>>
    /\ UNCHANGED RowsFrame

\* its INSERT of a row holding {} and commit
get_or_create_insert(p) ==
    /\ session[p].pc = "get_or_create_insert"
    /\ availability_rows' = InsertRows(availability_rows, << Row(session[p].week_start_date, EmptyObj) >>)
    /\ outcome' = [op |-> "get_or_create_availability",
                   raised |-> RowExists(availability_rows, session[p].week_start_date)]
    /\ session' = [session EXCEPT ![p] = Idle]
    /\ lastOp' = "get_or_create_insert"
    /\ UNCHANGED prev
    /\ UNCHANGED RowsFrame

\* the query of get_week_availability, with an active default schedule
get_week_availability_query(p, week_offset) ==
    /\ session[p] = Idle
    /\ session' = [session EXCEPT ![p] =
          IF RowExists(availability_rows, 7 * week_offset) \/ ActiveDefaults(default_schedules) = <<>> THEN Idle
          ELSE [pc |-> "get_week_availability_insert", week_start_date |-> 7 * week_offset,
                schedule_data |-> Head(ActiveDefaults(default_schedules)).schedule_data]]
    /\ outcome' = [op |-> "get_week_availability", raised |-> FALSE]
    /\ lastOp' = "get_week_availability_query"
    /\ UNCHANGED <<availability_rows, prev>>
    /\ UNCHANGED RowsFrame

\* its INSERT of a row holding the default schedule and commit
get_week_availability_insert(p) ==
    /\ session[p].pc = "get_week_availability_insert"
    /\ availability_rows' = InsertRows(availability_rows,
                                       << Row(session[p].week_start_date, session[p].schedule_data) >>)
    /\ outcome' = [op |-> "get_week_availability",
                   raised |-> RowExists(availability_rows, session[p].week_start_date)]
    /\ session' = [session EXCEPT ![p] = Idle]
    /\ lastOp' = "get_week_availability_insert"
    /\ UNCHANGED prev
    /\ UNCHANGED RowsFrame

\* the queries of the loop of _apply_default_to_future_weeks
apply_default_query(p, schedule_data) ==
    /\ session[p] = Idle
    /\ session' = [session EXCEPT ![p] =
          [pc |-> "apply_default_commit", schedule_data |-> schedule_data,
           existing |-> {w \in ApplyWeeks(DEFAULT_MAX_WEEKS) : RowExists(availability_rows, w)}]]
    /\ outcome' = [op |-> "apply_default_to_future_weeks", raised |-> FALSE]
    /\ lastOp' = "apply_default_query"
    /\ UNCHANGED <<availability_rows, prev>>
    /\ UNCHANGED RowsFrame

\* the weeks in ascending order, as rows to insert
RECURSIVE NewRows(_, _)
NewRows(weeks, schedule_data) ==
    IF weeks = {} THEN <<>>
    ELSE LET w == CHOOSE v \in weeks : \A u \in weeks : v <= u
         IN << Row(w, schedule_data) >> \o NewRows(weeks \ {w}, schedule_data)

\* its commit: the rows found are updated and the others inserted, or the
\* whole is rolled back
apply_default_commit(p) ==
    LET missing == ApplyWeeks(DEFAULT_MAX_WEEKS) \ session[p].existing
        raised == \E w \in missing : RowExists(availability_rows, w)
        updated == [i \in 1 .. Len(availability_rows) |->
                       IF availability_rows[i].week_start_date \in session[p].existing
                         THEN Row(availability_rows[i].week_start_date, session[p].schedule_data)
                         ELSE availability_rows[i]]
    IN /\ session[p].pc = "apply_default_commit"
       /\ availability_rows' = IF raised THEN availability_rows
                               ELSE InsertRows(updated, NewRows(missing, session[p].schedule_data))
       /\ outcome' = [op |-> "apply_default_to_future_weeks", raised |-> raised]
       /\ session' = [session EXCEPT ![p] = Idle]
       /\ lastOp' = "apply_default_commit"
       /\ UNCHANGED prev
       /\ UNCHANGED RowsFrame

InitRows ==
    /\ availability = EmptyObj
    /\ sync_enabled = [google |-> FALSE, outlook |-> FALSE]
    /\ google_calendar = {}
    /\ outlook_calendar = {}
    /\ lastOp = "none"
    /\ prev = EmptyObj
    /\ subtract_call = NoCall
    /\ default_schedules \in {<<>>, << [schedule_data |-> ("monday" :> NineToFive), is_active |-> TRUE] >>}
    /\ availability_rows \in {<<>>, << Row(7, "monday" :> HalfHour) >>}
    /\ session = [p \in Procs |-> Idle]
    /\ outcome = NoOutcome
    /\ adapter_call = NoAdapterCall
    /\ function_call = NoFunctionCall
    /\ job = NoJob

NextRows ==
    \/ \E p \in Procs, week_start_date \in {0, 7} : get_or_create_query(p, week_start_date)
    \/ \E p \in Procs : get_or_create_insert(p)
    \/ \E p \in Procs, week_offset \in {0, DEFAULT_MAX_WEEKS + 1} : get_week_availability_query(p, week_offset)
    \/ \E p \in Procs : get_week_availability_insert(p)
    \/ \E p \in Procs, schedule_data \in RequestData : apply_default_query(p, schedule_data)
    \/ \E p \in Procs : apply_default_commit(p)

SpecRows == InitRows /\ [][NextRows]_vars

----------------------------------------------------------------------------
(* The provider adapters on their own: one fetch of one week, against a
   provider that answers or fails *)

MaxEvents == 2

\* an Outlook event of the Graph API answer ('$select': start, end, showAs)
Event(showAs, period) ==
    [showAs |-> showAs, start |-> [dateTime |-> period.start], end |-> [dateTime |-> period.end]]

ShowAsValues == {"busy", "oof", "free", "tentative", "workingElsewhere"}

\* str.lower() on the showAs values
Lower(show_as) == IF show_as = "workingElsewhere" THEN "workingelsewhere" ELSE show_as

\* datetime.fromisoformat of the event's dateTime string
FromIsoFormat(date_time) == DateTime(date_time.day, date_time.minute)

\* what the provider does with the request: answers, refuses the credentials
\* (no service, no access token), or fails on the wire (HttpError,
\* RequestException)
ProviderStatus == {"ok", "auth_failure", "request_error"}

\* GoogleCalendarService.get_busy_times: [] without a service, [] on
\* HttpError or any other exception, the busy periods of the answer otherwise
GCS_get_busy_times(status, freebusy) ==
    IF status = "auth_failure" THEN <<>>
    ELSE IF status = "request_error" THEN <<>>
    ELSE [i \in 1 .. Len(freebusy) |->
             [start |-> FromIsoFormat(freebusy[i].start), end |-> FromIsoFormat(freebusy[i].end)]]

\* OutlookCalendarService.get_calendar_events: [] without an access token,
\* [] on RequestException, the events of the answer otherwise
OCS_get_calendar_events(status, events) ==
    IF status = "auth_failure" THEN <<>>
    ELSE IF status = "request_error" THEN <<>>
    ELSE events

\* the event as a busy period
EventPeriod(event) ==
    [start |-> FromIsoFormat(event.start.dateTime), end |-> FromIsoFormat(event.end.dateTime)]

\* the busy periods appended for the events the loop keeps
EventsToBusy(kept) == [i \in 1 .. Len(kept) |-> EventPeriod(kept[i])]

\* the service's test: skipped when the lowered showAs is in
\* ['free', 'workingElsewhere']
OCS_counts_as_busy(event) == Lower(event.showAs) \notin {"free", "workingElsewhere"}

\* OutlookCalendarService.get_busy_times
OCS_get_busy_times(status, events) ==
    EventsToBusy(SelectSeq(OCS_get_calendar_events(status, events), OCS_counts_as_busy))

\* the route's test: kept when the lowered showAs is in
\* ['busy', 'oof', 'workingelsewhere']
RT_counts_as_busy(event) == Lower(event.showAs) \in {"busy", "oof", "workingelsewhere"}

\* sync_from_outlook_calendar: the busy times it builds for one week
RT_outlook_busy_times(status, events) ==
    EventsToBusy(SelectSeq(OCS_get_calendar_events(status, events), RT_counts_as_busy))

AdapterFrame == <<availability, google_calendar, outlook_calendar, sync_enabled, lastOp, prev,
                  subtract_call, default_schedules, availability_rows, session, outcome,
                  function_call, job>>

\* a call of GoogleCalendarService.get_busy_times
GCS_get_busy_times_call ==
    /\ adapter_call.adapter = "none"
    /\ adapter_call' = [adapter_call EXCEPT
          !.adapter = "GoogleCalendarService.get_busy_times",
          !.returned = GCS_get_busy_times(adapter_call.status, adapter_call.freebusy)]
    /\ UNCHANGED AdapterFrame

\* a call of OutlookCalendarService.get_busy_times
OCS_get_busy_times_call ==
    /\ adapter_call.adapter = "none"
    /\ adapter_call' = [adapter_call EXCEPT
          !.adapter = "OutlookCalendarService.get_busy_times",
          !.returned = OCS_get_busy_times(adapter_call.status, adapter_call.events)]
    /\ UNCHANGED AdapterFrame

\* one week of sync_from_outlook_calendar, up to its busy times
RT_outlook_busy_times_call ==
    /\ adapter_call.adapter = "none"
    /\ adapter_call' = [adapter_call EXCEPT
          !.adapter = "sync_from_outlook_calendar",
          !.returned = RT_outlook_busy_times(adapter_call.status, adapter_call.events)]
    /\ UNCHANGED AdapterFrame

EventPeriods == { Period(0, 600, 0, 660), Period(1, 840, 1, 900) }

Events == { Event(showAs, period) : showAs \in ShowAsValues, period \in EventPeriods }

EventLists == UNION { [1 .. n -> Events] : n \in 0 .. MaxEvents }

FreeBusyLists == { <<>>, << Period(0, 600, 0, 660) >>, << Period(0, 600, 0, 660), Period(1, 840, 1, 900) >> }

InitAdapters ==
    /\ availability = EmptyObj
    /\ google_calendar = {}
    /\ outlook_calendar = {}
    /\ sync_enabled = [google |-> FALSE, outlook |-> FALSE]
    /\ lastOp = "none"
    /\ prev = EmptyObj
    /\ subtract_call = NoCall
    /\ default_schedules = <<>>
    /\ availability_rows = <<>>
    /\ session = [p \in Procs |-> Idle]
    /\ outcome = NoOutcome
    /\ \E status \in ProviderStatus, events \in EventLists, freebusy \in FreeBusyLists :
          adapter_call = [adapter |-> "none", status |-> status, events |-> events,
                          freebusy |-> freebusy, raised |-> FALSE, returned |-> <<>>]
    /\ function_call = NoFunctionCall
    /\ job = NoJob

NextAdapters == GCS_get_busy_times_call \/ OCS_get_busy_times_call \/ RT_outlook_busy_times_call

SpecAdapters == InitAdapters /\ [][NextAdapters]_vars

----------------------------------------------------------------------------
(* CalendarScheduler._convert_busy_times_to_availability_format on its own,
   on busy periods as a provider may hand them over: datetime objects, ISO
   strings ('2024-01-01T10:00:00Z'), date strings ('2024-01-01'), or text
   that is none of these *)

MaxRawBusy == 2

\* an endpoint of a busy period: kind is "datetime", "iso", "date" or "bad"
RawEnd(kind, day, minute) == [kind |-> kind, day |-> day, minute |-> minute]

RawPeriod(start, end) == [start |-> start, end |-> end]

\* isinstance(busy_period['start'], str)
IsStr(raw_end) == raw_end.kind # "datetime"

\* 'T' in busy_period['start']
HasT(raw_end) == raw_end.kind = "iso"

\* datetime.fromisoformat(s.replace('Z', '+00:00')) raises: on text that is
\* no ISO date or datetime, and on a datetime object (replace takes no
\* positional strings)
FromIsoFormatRaises(raw_end) == raw_end.kind \notin {"iso", "date"}

\* datetime.strptime(s, '%Y-%m-%d') raises: on anything but a date string
StrptimeRaises(raw_end) == raw_end.kind # "date"

\* variant: no parse fails, text that does not parse counts as it stands
CS_busy_period_raises_never(busy_period) == FALSE

\* the body of the try raises for this busy period
CS_busy_period_raises(busy_period) ==
    IF IsStr(busy_period.start)
      THEN IF HasT(busy_period.start)
             THEN FromIsoFormatRaises(busy_period.start) \/ FromIsoFormatRaises(busy_period.end)
             ELSE StrptimeRaises(busy_period.start) \/ StrptimeRaises(busy_period.end)
      ELSE IsStr(busy_period.end)       \* busy_end_dt.date() on a str

\* busy_start_dt and busy_end_dt of a period that parses: a date string gives
\* midnight of its date
CS_busy_period_parsed(busy_period) ==
    [start |-> DateTime(busy_period.start.day,
                        IF busy_period.start.kind = "date" THEN 0 ELSE busy_period.start.minute),
     end   |-> DateTime(busy_period.end.day,
                        IF busy_period.end.kind = "date" THEN 0 ELSE busy_period.end.minute)]

\* the periods the inner loop does not skip, parsed
CS_parsed_busy_times(busy_times) ==
    LET kept == SelectSeq(busy_times, LAMBDA busy_period : ~CS_busy_period_raises(busy_period))
    IN [i \in 1 .. Len(kept) |-> CS_busy_period_parsed(kept[i])]

\* _convert_busy_times_to_availability_format(busy_times, week_start, user_id)
CS_convert_raw_busy_times(busy_times, week_start, table) ==
    CS_convert_busy_times_to_availability_format(CS_parsed_busy_times(busy_times), week_start, table)

FunctionFrame == <<availability, google_calendar, outlook_calendar, sync_enabled, lastOp, prev,
                   subtract_call, default_schedules, availability_rows, session, outcome,
                   adapter_call, job>>

\* a call of the conversion for the current week
CS_convert_call ==
    /\ function_call.function = "none"
    /\ function_call' = [function_call EXCEPT
          !.function = "CS_convert_busy_times_to_availability_format",
          !.raised = FALSE,
          !.returned = CS_convert_raw_busy_times(function_call.busy_times, 0, function_call.table)]
    /\ UNCHANGED FunctionFrame

RawBusySamples ==
    { RawPeriod(RawEnd("datetime", 0, 600), RawEnd("datetime", 0, 660)),   \* Monday 10:00-11:00
      RawPeriod(RawEnd("iso", 0, 780), RawEnd("iso", 0, 840)),             \* Monday 13:00-14:00, as text
      RawPeriod(RawEnd("date", 1, 0), RawEnd("date", 2, 0)),               \* Tuesday to Wednesday, dates
      RawPeriod(RawEnd("bad", 0, 540), RawEnd("datetime", 0, 1020)),       \* start does not parse
      RawPeriod(RawEnd("datetime", 0, 540), RawEnd("bad", 0, 1020)),       \* end does not parse
      RawPeriod(RawEnd("iso", 1, 540), RawEnd("bad", 1, 1020)),
      RawPeriod(RawEnd("datetime", 0, 900), RawEnd("iso", 0, 960)) }       \* datetime start, text end

RawBusyLists == UNION { [1 .. n -> RawBusySamples] : n \in 0 .. MaxRawBusy }

ConvertTables ==
    { EmptyObj,
      0 :> ("monday" :> NineToFive),
      0 :> (("monday" :> NineToFive) @@ ("tuesday" :> NineToFive) @@ ("wednesday" :> Unavailable)) }

FunctionAtRest ==
    /\ availability = EmptyObj
    /\ google_calendar = {}
    /\ outlook_calendar = {}
    /\ sync_enabled = [google |-> FALSE, outlook |-> FALSE]
    /\ lastOp = "none"
    /\ prev = EmptyObj
    /\ subtract_call = NoCall
    /\ default_schedules = <<>>
    /\ availability_rows = <<>>
    /\ session = [p \in Procs |-> Idle]
    /\ outcome = NoOutcome
    /\ adapter_call = NoAdapterCall
    /\ job = NoJob

InitConvert ==
    /\ FunctionAtRest
    /\ \E busy_times \in RawBusyLists, table \in ConvertTables :
          function_call = [function |-> "none", busy_times |-> busy_times, table |-> table,
                           raised |-> FALSE, returned |-> EmptyObj]

NextConvert == CS_convert_call

SpecConvert == InitConvert /\ [][NextConvert]_vars

----------------------------------------------------------------------------
(* time_to_minutes and minutes_to_time_str on their own, in the two copies
   that write 12-hour strings *)

\* the minutes of a day
DayMinutes == 0 .. 1439

\* the 12-hour strings 'H:MM AM' and 'H:MM PM', H from 1 to 12
TwelveHourStrings == { Str12(h, mi, mer) : h \in 1 .. 12, mi \in 0 .. 59, mer \in {"AM", "PM"} }

NoMinutes == -1

\* CalendarScheduler: time_to_minutes(minutes_to_time_str(minutes))
CS_format_then_parse ==
    /\ function_call.function = "none"
    /\ function_call.minutes # NoMinutes
    /\ function_call' = [function_call EXCEPT
          !.function = "CS_format_then_parse",
          !.time_str = CS_minutes_to_time_str(function_call.minutes),
          !.returned = CS_time_to_minutes(CS_minutes_to_time_str(function_call.minutes))]
    /\ UNCHANGED FunctionFrame

\* routes: time_to_minutes(minutes_to_time_str(minutes))
RT_format_then_parse ==
    /\ function_call.function = "none"
    /\ function_call.minutes # NoMinutes
    /\ function_call' = [function_call EXCEPT
          !.function = "RT_format_then_parse",
          !.time_str = RT_minutes_to_time_str(function_call.minutes),
          !.returned = RT_time_to_minutes(RT_minutes_to_time_str(function_call.minutes))]
    /\ UNCHANGED FunctionFrame

\* CalendarScheduler: minutes_to_time_str(time_to_minutes(time_str))
CS_parse_then_format ==
    /\ function_call.function = "none"
    /\ function_call.minutes = NoMinutes
    /\ function_call' = [function_call EXCEPT
          !.function = "CS_parse_then_format",
          !.returned = CS_minutes_to_time_str(CS_time_to_minutes(function_call.time_str))]
    /\ UNCHANGED FunctionFrame

\* routes: minutes_to_time_str(time_to_minutes(time_str))
RT_parse_then_format ==
    /\ function_call.function = "none"
    /\ function_call.minutes = NoMinutes
    /\ function_call' = [function_call EXCEPT
          !.function = "RT_parse_then_format",
          !.returned = RT_minutes_to_time_str(RT_time_to_minutes(function_call.time_str))]
    /\ UNCHANGED FunctionFrame

InitTimes ==
    /\ FunctionAtRest
    /\ \/ \E minutes \in DayMinutes :
            function_call = [function |-> "none", minutes |-> minutes, time_str |-> None, returned |-> None]
       \/ \E time_str \in TwelveHourStrings :
            function_call = [function |-> "none", minutes |-> NoMinutes, time_str |-> time_str,
                             returned |-> None]

NextTimes == CS_format_then_parse \/ RT_format_then_parse \/ CS_parse_then_format \/ RT_parse_then_format

SpecTimes == InitTimes /\ [][NextTimes]_vars

----------------------------------------------------------------------------
(* Availability.get_time_ranges on its own *)

MaxStoredRanges == 2

\* the offset in minutes of a zone from the server zone America/New_York
\* (standard time), NoZone for a name pytz does not know
NoZone == 9999

ZoneOffset(user_timezone) ==
    IF user_timezone = "America/New_York" THEN 0
    ELSE IF user_timezone = "America/Los_Angeles" THEN -180
    ELSE IF user_timezone = "Europe/London" THEN 300
    ELSE IF user_timezone = "Asia/Kolkata" THEN 630
    ELSE NoZone

\* datetime.strptime(time_str, '%H:%M') raises on anything but 'HH:MM'
StrptimeHMRaises(time_str) == time_str.enc # "24h"

\* strftime('%I:%M %p').lstrip('0') of a minute of the day
StrftimeIMp(minutes) ==
    LET hours == minutes \div 60
    IN Str12(IF hours % 12 = 0 THEN 12 ELSE hours % 12, minutes % 60, IF hours < 12 THEN "AM" ELSE "PM")

\* Availability._convert_time_to_timezone: the original strings when the zone
\* is unknown or a string does not parse
convert_time_to_timezone(start_time_str, end_time_str, user_timezone) ==
    IF ZoneOffset(user_timezone) = NoZone \/ StrptimeHMRaises(start_time_str) \/ StrptimeHMRaises(end_time_str)
      THEN <<start_time_str, end_time_str>>
      ELSE << StrftimeIMp((start_time_str.hour * 60 + start_time_str.minute
                           + ZoneOffset(user_timezone)) % 1440),
              StrftimeIMp((end_time_str.hour * 60 + end_time_str.minute
                           + ZoneOffset(user_timezone)) % 1440) >>

\* Availability._format_time_to_12hour
format_time_to_12hour(time_str) ==
    IF StrptimeHMRaises(time_str) THEN time_str
    ELSE StrftimeIMp(time_str.hour * 60 + time_str.minute)

NoTimezone == "None"

\* Availability.get_time_ranges(day_name, user_timezone) on the day's record
get_time_ranges(day_data, user_timezone) ==
    IF Get(day_data, "available", FALSE)
      THEN LET ranges == ExistingTimeRanges(day_data)
           IN IF user_timezone # NoTimezone
                THEN [i \in 1 .. Len(ranges) |->
                        Range(convert_time_to_timezone(ranges[i].start, ranges[i].end, user_timezone)[1],
                              convert_time_to_timezone(ranges[i].start, ranges[i].end, user_timezone)[2])]
                ELSE [i \in 1 .. Len(ranges) |->
                        Range(format_time_to_12hour(ranges[i].start), format_time_to_12hour(ranges[i].end))]
      ELSE <<>>

\* a call of get_time_ranges for the Monday of the current week
get_time_ranges_call(user_timezone) ==
    /\ function_call.function = "none"
    /\ function_call' = [function_call EXCEPT
          !.function = "get_time_ranges",
          !.user_timezone = user_timezone,
          !.returned = get_time_ranges(StoredDayOf(function_call.table, 0, "monday"), user_timezone),
          !.table_after = function_call.table]
    /\ UNCHANGED FunctionFrame

\* ranges as manual edits store them and as a sync pass stores them
StoredRangeSamples ==
    { Range(Str24(540), Str24(1020)), Range(Str24(1320), Str24(1380)), Range(Str24(0), Str24(1439)),
      Range(CS_minutes_to_time_str(540), CS_minutes_to_time_str(600)),
      Range(CS_minutes_to_time_str(660), CS_minutes_to_time_str(1020)) }

StoredRangeLists == UNION { [1 .. n -> StoredRangeSamples] : n \in 1 .. MaxStoredRanges }

ZoneTables ==
    { 0 :> ("monday" :> DayData(TRUE, time_ranges[1].start, time_ranges[1].end, time_ranges, FALSE)) :
        time_ranges \in StoredRangeLists }
    \cup { 0 :> ("monday" :> LegacyNineToFive), 0 :> ("monday" :> Unavailable), EmptyObj }

Timezones == {"America/New_York", "America/Los_Angeles", "Europe/London", "Asia/Kolkata", "Mars/Olympus"}

InitZone ==
    /\ FunctionAtRest
    /\ \E table \in ZoneTables :
          function_call = [function |-> "none", table |-> table, user_timezone |-> NoTimezone,
                           returned |-> <<>>, table_after |-> table]

NextZone == \E user_timezone \in Timezones \cup {NoTimezone} : get_time_ranges_call(user_timezone)

SpecZone == InitZone /\ [][NextZone]_vars

----------------------------------------------------------------------------
(* The sync jobs over all users.  A user's pass is summed up by the number of
   its weeks that raise; the provider services are configured or not; the
   database answers the queries of the job or raises on them *)

Users == {"u1", "u2"}

\* the weeks that may raise in a user's pass: none, one, all
FailedWeekCounts == {0, 1, NumWeeks}

Stats(synced, errors) == [synced |-> synced, errors |-> errors]

\* what a function returns when it ends with a bare return
ReturnsNone == [none |-> TRUE]

\* the return value of a _sync_user_* pass: success_count > 0
UserSuccess(failed_weeks) == NumWeeks - failed_weeks > 0

\* the loop of a path over its users: success_count and error_count
LoopStats(users, failed_weeks) ==
    Stats(Cardinality({u \in users : UserSuccess(failed_weeks[u])}),
          Cardinality({u \in users : ~UserSuccess(failed_weeks[u])}))

\* the users with a sync record of the provider that has sync_enabled and
\* auto_sync_availability
RecordUsers(records, provider) == {u \in DOMAIN records : records[u][provider]}

\* _sync_unified_calendar_users: the users it syncs
unified_users(records, configured) ==
    (IF configured.google THEN RecordUsers(records, "google") ELSE {})
    \cap (IF configured.outlook THEN RecordUsers(records, "outlook") ELSE {})

\* _sync_google_only_users: the users it syncs
google_only_users(records, configured) == RecordUsers(records, "google") \ RecordUsers(records, "outlook")

\* _sync_outlook_only_users: the users it syncs
outlook_only_users(records, configured) == RecordUsers(records, "outlook") \ RecordUsers(records, "google")

\* _sync_unified_calendar_users: its stats
sync_unified_calendar_users(records, configured, failed_weeks, db_raises) ==
    IF db_raises /\ (configured.google \/ configured.outlook) THEN Stats(0, 1)
    ELSE LoopStats(unified_users(records, configured), failed_weeks)

\* _sync_google_only_users: its stats
sync_google_only_users(records, configured, failed_weeks, db_raises) ==
    IF db_raises THEN Stats(0, 1)
    ELSE LoopStats(google_only_users(records, configured), failed_weeks)

\* _sync_outlook_only_users: its stats
sync_outlook_only_users(records, configured, failed_weeks, db_raises) ==
    IF db_raises THEN Stats(0, 1)
    ELSE LoopStats(outlook_only_users(records, configured), failed_weeks)

\* the paths of one run that call the user's pass
PathsOf(u, records, configured, db_raises) ==
    IF db_raises THEN {}
    ELSE (IF u \in unified_users(records, configured) THEN {"unified"} ELSE {})
         \cup (IF configured.google /\ u \in google_only_users(records, configured)
                 THEN {"google_only"} ELSE {})
         \cup (IF configured.outlook /\ u \in outlook_only_users(records, configured)
                 THEN {"outlook_only"} ELSE {})

JobFrame == <<availability, google_calendar, outlook_calendar, sync_enabled, lastOp, prev,
              subtract_call, default_schedules, availability_rows, session, outcome,
              adapter_call, function_call>>

\* CalendarScheduler.sync_all_users_availability
CS_sync_all_users_availability ==
    /\ job.job = "none"
    /\ job' = [job EXCEPT
          !.job = "CalendarScheduler.sync_all_users_availability",
          !.raised = FALSE,
          !.returned =
              [unified |-> sync_unified_calendar_users(job.records, job.configured, job.failed_weeks,
                                                       job.db_raises),
               google_only |-> IF job.configured.google
                                 THEN sync_google_only_users(job.records, job.configured,
                                                             job.failed_weeks, job.db_raises)
                                 ELSE Stats(0, 0),
               outlook_only |-> IF job.configured.outlook
                                  THEN sync_outlook_only_users(job.records, job.configured,
                                                               job.failed_weeks, job.db_raises)
                                  ELSE Stats(0, 0)],
          !.paths = [u \in Users |-> PathsOf(u, job.records, job.configured, job.db_raises)]]
    /\ UNCHANGED JobFrame

\* GoogleCalendarScheduler.sync_all_users_availability; synced_recently are
\* the users whose last_sync is less than an hour old
GS_sync_all_users_availability(synced_recently) ==
    LET sync_records == RecordUsers(job.records, "google")
        due == sync_records \ synced_recently
    IN /\ job.job = "none"
       /\ job' = [job EXCEPT
             !.job = "GoogleCalendarScheduler.sync_all_users_availability",
             !.raised = job.configured.google /\ job.db_raises,
             !.returned = IF ~job.configured.google THEN ReturnsNone
                          ELSE IF job.db_raises THEN ReturnsNone
                          ELSE IF sync_records = {} THEN Stats(0, 0)
                          ELSE LoopStats(due, job.failed_weeks),
             !.paths = [u \in Users |->
                          IF job.configured.google /\ ~job.db_raises /\ u \in due
                            THEN {"google"} ELSE {}]]
       /\ UNCHANGED JobFrame

InitJob ==
    /\ availability = EmptyObj
    /\ google_calendar = {}
    /\ outlook_calendar = {}
    /\ sync_enabled = [google |-> FALSE, outlook |-> FALSE]
    /\ lastOp = "none"
    /\ prev = EmptyObj
    /\ subtract_call = NoCall
    /\ default_schedules = <<>>
    /\ availability_rows = <<>>
    /\ session = [p \in Procs |-> Idle]
    /\ outcome = NoOutcome
    /\ adapter_call = NoAdapterCall
    /\ function_call = NoFunctionCall
    /\ \E records \in [Users -> [google : BOOLEAN, outlook : BOOLEAN]],
          configured \in [google : BOOLEAN, outlook : BOOLEAN],
          failed_weeks \in [Users -> FailedWeekCounts],
          db_raises \in BOOLEAN :
          job = [job |-> "none", records |-> records, configured |-> configured,
                 failed_weeks |-> failed_weeks, db_raises |-> db_raises,
                 raised |-> FALSE, returned |-> ReturnsNone, paths |-> [u \in Users |-> {}]]

NextJob ==
    \/ CS_sync_all_users_availability
    \/ \E synced_recently \in SUBSET {"u1"} : GS_sync_all_users_availability(synced_recently)

SpecJob == InitJob /\ [][NextJob]_vars

----------------------------------------------------------------------------
(* CalendarScheduler.sync_user_now beside the unified pass *)

\* variant: only the Google pass is run
CS_sync_user_now_google_only(table, enabled, google, outlook) ==
    IF enabled.google THEN CS_sync_user_weeks(table, CalendarList(google)) ELSE table

\* the Google pass when Google sync is enabled, then the Outlook pass when
\* Outlook sync is enabled, each on what the table then holds
CS_sync_user_now(table, enabled, google, outlook) ==
    LET after_google == IF enabled.google THEN CS_sync_user_weeks(table, CalendarList(google)) ELSE table
    IN IF enabled.outlook THEN CS_sync_user_weeks(after_google, CalendarList(outlook)) ELSE after_google

\* results: what the two passes returned, False for a pass that was not run
CS_sync_user_now_results(table, enabled, google, outlook) ==
    LET after_google == IF enabled.google THEN CS_sync_user_weeks(table, CalendarList(google)) ELSE table
    IN [google  |-> enabled.google /\ CS_sync_user_returns(table, CalendarList(google)),
        outlook |-> enabled.outlook /\ CS_sync_user_returns(after_google, CalendarList(outlook))]

\* CalendarScheduler.sync_user_now
sync_user_now ==
    /\ availability' = CS_sync_user_now(availability, sync_enabled, google_calendar, outlook_calendar)
    /\ outcome' = [op |-> "sync_user_now",
                   returned |-> CS_sync_user_now_results(availability, sync_enabled,
                                                         google_calendar, outlook_calendar)]
    /\ lastOp' = "sync_user_now"
    /\ prev' = availability
    /\ UNCHANGED <<google_calendar, outlook_calendar, sync_enabled, subtract_call,
                   default_schedules, availability_rows, session, adapter_call, function_call, job>>

\* the weeks a user may have stored: Monday and Tuesday, as manual edits and
\* submit_availability leave them
\* a Monday with a twenty-minute range and an afternoon
ShortAndLong ==
    DayData(TRUE, Str24(540), Str24(560),
            << Range(Str24(540), Str24(560)), Range(Str24(780), Str24(1020)) >>, FALSE)

NowWeeks ==
    { ("monday" :> m) @@ ("tuesday" :> NineToFive) :
        m \in {NineToFive, HalfHour, Unavailable, MalformedDay, ShortAndLong} }
    \cup { EmptyObj }

InitNow ==
    /\ \E this_week \in NowWeeks, next_week \in NowWeeks : availability = (0 :> this_week) @@ (7 :> next_week)
    /\ sync_enabled \in [google : BOOLEAN, outlook : BOOLEAN]
    /\ google_calendar \in SUBSET {Period(0, 600, 0, 660), Period(0, 555, 0, 1019), Period(7, 600, 7, 660)}
    /\ outlook_calendar \in SUBSET {Period(0, 630, 0, 720), Period(1, 600, 1, 660)}
    /\ lastOp = "none"
    /\ prev = availability
    /\ subtract_call = NoCall
    /\ OthersAtRest

NextNow == sync_user_now \/ sync_user_unified_calendars_returning

SpecNow == InitNow /\ [][NextNow]_vars

(***************************************************************************)
(* Which stored day record belongs to a calendar date.  A record is named  *)
(* by the week_start_date of its row and the day name of its entry.  The   *)
(* sync pass, the group availability check and the two views each compute  *)
(* it from a date in their own way.                                        *)
(***************************************************************************)

\* the dates of the weeks a sync pass covers, as day numbers from the Monday of the current week
Dates == 0 .. (7 * NumWeeks - 1)

\* current_date.strftime('%A').lower(): the weekday name of a date
WeekdayName(date) == day_names[(date % 7) + 1]

DayRecord(week_start, day_name) == [week_start_date |-> week_start, day_name |-> day_name]

\* for day_offset in range(7): current_date = week_start + day_offset;
\* day_name = day_names[current_date.weekday()]; the day's busy periods are those dated current_date
CS_records_rewritten_for(date) ==
    { DayRecord(week_start, day_names[((week_start + day_offset) % 7) + 1]) :
        <<week_start, day_offset>> \in
            { p \in WeekStarts \X (0 .. 6) : p[1] + p[2] = date } }

\* for day_offset in [-1, 0, 1, 2, 3, 4, 5]: Sunday first, then Monday to Saturday
ViewDayOffsets == <<-1, 0, 1, 2, 3, 4, 5>>

\* the weeks a view can be asked for: the synced weeks and the one after them
ViewWeekStarts == {7 * week_offset : week_offset \in 0 .. NumWeeks}

\* the dates of the days a view lays out for the week of week_start
ViewDays(week_start) ==
    { week_start + ViewDayOffsets[i] : i \in 1 .. Len(ViewDayOffsets) }

\* get_month_data: the day dated current_date = week_start + day_offset is filled from the row
\* with week_start_date == week_start, at is_available_on_day(day_name) of current_date's name
get_month_data_records_for(date) ==
    { DayRecord(week_start, WeekdayName(date)) :
        week_start \in { w \in ViewWeekStarts : date \in ViewDays(w) } }

\* get_week_availability: availability_data of the row of week_start, beside days dated
\* week_start + day_offset and named after their date
get_week_availability_records_for(date) ==
    { DayRecord(week_start, WeekdayName(date)) :
        week_start \in { w \in ViewWeekStarts : date \in ViewDays(w) } }

\* _all_members_available_on_date: week_start = get_week_start(check_date),
\* day_name = check_date.strftime('%A').lower()
all_members_available_records_for(check_date) ==
    { DayRecord(get_week_start(check_date), WeekdayName(check_date)) }

\* the record a sync pass rewrites for the busy periods dated function_call.date
CS_records_rewritten_call ==
    /\ function_call.function = "none"
    /\ function_call' = [function_call EXCEPT
          !.function = "_convert_busy_times_to_availability_format",
          !.returned = CS_records_rewritten_for(function_call.date)]
    /\ UNCHANGED FunctionFrame

get_month_data_call ==
    /\ function_call.function = "none"
    /\ function_call' = [function_call EXCEPT
          !.function = "get_month_data",
          !.returned = get_month_data_records_for(function_call.date)]
    /\ UNCHANGED FunctionFrame

get_week_availability_days_call ==
    /\ function_call.function = "none"
    /\ function_call' = [function_call EXCEPT
          !.function = "get_week_availability",
          !.returned = get_week_availability_records_for(function_call.date)]
    /\ UNCHANGED FunctionFrame

all_members_available_call ==
    /\ function_call.function = "none"
    /\ function_call' = [function_call EXCEPT
          !.function = "_all_members_available_on_date",
          !.returned = all_members_available_records_for(function_call.date)]
    /\ UNCHANGED FunctionFrame

InitDates ==
    /\ FunctionAtRest
    /\ \E date \in Dates :
          function_call = [function |-> "none", date |-> date, returned |-> {}]

NextDates ==
    \/ CS_records_rewritten_call
    \/ get_month_data_call
    \/ get_week_availability_days_call
    \/ all_members_available_call

SpecDates == InitDates /\ [][NextDates]_vars

----------------------------------------------------------------------------
(* Vocabulary of the properties *)

CSOps == {"sync_user_google_calendar", "sync_user_outlook_calendar", "sync_user_unified_calendars"}
RTOps == {"sync_from_google_calendar", "sync_from_outlook_calendar"}
GSOps == {"GS_sync_user_availability"}

AllDayNames == {day_names[i] : i \in 1 .. 7}

\* the busy periods the last pass was given
UsedBusy ==
    IF lastOp \in {"sync_user_google_calendar", "sync_from_google_calendar", "GS_sync_user_availability"}
      THEN CalendarList(google_calendar)
    ELSE IF lastOp \in {"sync_user_outlook_calendar", "sync_from_outlook_calendar"}
      THEN CalendarList(outlook_calendar)
    ELSE IF lastOp = "sync_user_unified_calendars"
      THEN combined_busy_times(google_calendar, outlook_calendar)
    ELSE <<>>

\* the busy times the last pass saw on a day of a week
UsedDayBusy(week_start, day_name) ==
    DayBusyTimes(get_busy_times(UsedBusy, week_start, week_start + 6),
                 week_start + OffsetOf(week_start, day_name))

\* the record stored for a day ({} when the week or the day is not stored)
StoredDay(table, week_start, day_name) ==
    get_day_availability(get_or_create_availability(table, week_start), day_name)

IsAvailable(day_data) == Get(day_data, "available", FALSE)

\* stored with available=false
StoredUnavailable(day_data) == "available" \in DOMAIN day_data /\ day_data.available = FALSE

\* the ranges a day offers, as pairs of minutes
RangesOf(day_data) ==
    IF IsAvailable(day_data)
      THEN [i \in 1 .. Len(ExistingTimeRanges(day_data)) |->
              <<CS_time_to_minutes(ExistingTimeRanges(day_data)[i].start),
                CS_time_to_minutes(ExistingTimeRanges(day_data)[i].end)>>]
      ELSE <<>>

\* the minutes of the day these ranges cover
MinutesOf(day_data) ==
    UNION {RangesOf(day_data)[i][1] .. (RangesOf(day_data)[i][2] - 1) : i \in 1 .. Len(RangesOf(day_data))}

\* the last pass recomputed the ranges of this day
Rewritten(week_start, day_name) ==
    /\ IsAvailable(StoredDay(prev, week_start, day_name))
    /\ \/ lastOp \in RTOps
       \/ lastOp \in GSOps /\ ~GS_convert_raises(week_start, prev)
       \/ lastOp \in CSOps /\ UsedDayBusy(week_start, day_name) # <<>>

----------------------------------------------------------------------------
(* C1: in the CalendarScheduler passes and the on-demand routes a day stored
   with available=false is still stored with available=false after the pass,
   whatever busy periods were reported *)
C1_UnavailableStaysUnavailable ==
    lastOp \in CSOps \cup RTOps =>
        \A week_start \in WeekStarts, day_name \in AllDayNames :
            StoredUnavailable(StoredDay(prev, week_start, day_name))
                => StoredUnavailable(StoredDay(availability, week_start, day_name))

\* a CalendarScheduler pass met an unavailable Monday with busy periods on it
C1_Witness ==
    /\ lastOp \in CSOps
    /\ StoredUnavailable(StoredDay(prev, 0, "monday"))
    /\ UsedDayBusy(0, "monday") # <<>>
    /\ StoredUnavailable(StoredDay(availability, 0, "monday"))

(* C2: in GoogleCalendarScheduler._sync_user_availability a day stored with
   available=false is never stored as available=true after the pass *)
C2_GoogleSchedulerKeepsUnavailable ==
    lastOp \in GSOps =>
        \A week_start \in WeekStarts, day_name \in AllDayNames :
            StoredUnavailable(StoredDay(prev, week_start, day_name))
                => ~IsAvailable(StoredDay(availability, week_start, day_name))

(* C3: a CalendarScheduler pass never adds available minutes to a day: the
   minutes covered after the pass are a subset of those covered before *)
C3_PassOnlyShrinks ==
    lastOp \in CSOps =>
        \A week_start \in WeekStarts, day_name \in AllDayNames :
            MinutesOf(StoredDay(availability, week_start, day_name))
                \subseteq MinutesOf(StoredDay(prev, week_start, day_name))

\* a later pass with no conflicts ran on a Monday that an earlier pass had cut
C3_Witness ==
    /\ lastOp = "sync_user_outlook_calendar"
    /\ outlook_calendar = {}
    /\ Period(0, 600, 0, 660) \in google_calendar
    /\ IsAvailable(StoredDay(prev, 0, "monday"))
    /\ Len(RangesOf(StoredDay(prev, 0, "monday"))) = 2
    /\ StoredDay(prev, 0, "monday").start.enc = "12h"
    /\ MinutesOf(StoredDay(availability, 0, "monday")) = MinutesOf(StoredDay(prev, 0, "monday"))

\* the minute of the day a stored or reported time denotes
MinuteOfDay(t) ==
    IF t.enc = "12h" THEN ((t.hour % 12) + (IF t.mer = "PM" THEN 12 ELSE 0)) * 60 + t.minute
    ELSE t.hour * 60 + t.minute

\* the minute m lies in one of the half-open busy intervals
BusyCovers(day_busy_times, m) ==
    \E i \in 1 .. Len(day_busy_times) :
        MinuteOfDay(day_busy_times[i].start) <= m /\ m < MinuteOfDay(day_busy_times[i].end)

\* the maximal sub-intervals [a, b) of [s, e) of which no minute is covered
MaximalFree(s, e, day_busy_times) ==
    LET cuts == {s, e} \cup {MinuteOfDay(day_busy_times[i].start) : i \in 1 .. Len(day_busy_times)}
                       \cup {MinuteOfDay(day_busy_times[i].end) : i \in 1 .. Len(day_busy_times)}
    IN {p \in cuts \X cuts :
          /\ s <= p[1] /\ p[1] < p[2] /\ p[2] <= e
          /\ \A m \in cuts \cup {c + 1 : c \in cuts} : (p[1] <= m /\ m < p[2]) => ~BusyCovers(day_busy_times, m)
          /\ (p[1] = s \/ BusyCovers(day_busy_times, p[1] - 1))
          /\ (p[2] = e \/ BusyCovers(day_busy_times, p[2]))}

\* a set of disjoint intervals listed by ascending start
RECURSIVE Ascending(_)
Ascending(intervals) ==
    IF intervals = {} THEN <<>>
    ELSE LET first == CHOOSE p \in intervals : \A q \in intervals : p[1] <= q[1]
         IN <<first>> \o Ascending(intervals \ {first})

\* the remainders expected of a call with threshold T, as pairs of minutes
ExpectedRemainders(time_ranges, day_busy_times, T) ==
    FlattenSeq([i \in 1 .. Len(time_ranges) |->
        SelectSeq(Ascending(MaximalFree(MinuteOfDay(time_ranges[i].start),
                                        MinuteOfDay(time_ranges[i].end), day_busy_times)),
                  LAMBDA p : p[2] - p[1] >= T)])

ReturnedMinutes(returned) ==
    [i \in 1 .. Len(returned) |-> <<MinuteOfDay(returned[i].start), MinuteOfDay(returned[i].end)>>]

ThresholdOf(impl) == IF impl = "CS" THEN CS_MIN_DURATION ELSE IF impl = "RT" THEN RT_MIN_DURATION ELSE GS_MIN_DURATION

Returned == subtract_call.impl \in {"CS", "RT", "GS"} /\ ~subtract_call.raised

\* the call CalendarScheduler made with range 9-5 and busy 10:00-11:00
NineToFiveCall ==
    /\ subtract_call.impl = "CS"
    /\ ReturnedMinutes(subtract_call.time_ranges) = << <<540, 1020>> >>
    /\ subtract_call.busy_times = << [start |-> TimeObj(10, 0), end |-> TimeObj(11, 0)] >>

NineToFiveResult ==
    /\ Len(subtract_call.returned) = 2
    /\ TimeText(subtract_call.returned[1].start) = "9:00 AM"
    /\ TimeText(subtract_call.returned[1].end) = "10:00 AM"
    /\ TimeText(subtract_call.returned[2].start) = "11:00 AM"
    /\ TimeText(subtract_call.returned[2].end) = "5:00 PM"

(* C4 as stated: _subtract_busy_times_from_ranges returns, range by range in
   input order, exactly the maximal sub-intervals of the range that no
   half-open busy interval covers and that reach the threshold of the call
   site; range 9-5 with busy 10:00-11:00 and threshold 30 gives
   '9:00 AM'-'10:00 AM' and '11:00 AM'-'5:00 PM' *)
C4_SubtractMaximalFree ==
    /\ Returned => ReturnedMinutes(subtract_call.returned)
                     = ExpectedRemainders(subtract_call.time_ranges, subtract_call.busy_times,
                                          ThresholdOf(subtract_call.impl))
    /\ NineToFiveCall => NineToFiveResult

\* every busy interval of the call has its start before its end
BusyNonEmpty ==
    \A i \in 1 .. Len(subtract_call.busy_times) :
        MinuteOfDay(subtract_call.busy_times[i].start) < MinuteOfDay(subtract_call.busy_times[i].end)

(* C4 amended: when every busy interval has bs < be,
   _subtract_busy_times_from_ranges returns, range by range in input order,
   exactly the maximal sub-intervals of the range that no half-open busy
   interval covers and that reach the threshold of the call site; range 9-5
   with busy 10:00-11:00 and threshold 30 gives '9:00 AM'-'10:00 AM' and
   '11:00 AM'-'5:00 PM' *)
C4_SubtractMaximalFreeNonEmptyBusy ==
    /\ (Returned /\ BusyNonEmpty)
          => ReturnedMinutes(subtract_call.returned)
               = ExpectedRemainders(subtract_call.time_ranges, subtract_call.busy_times,
                                    ThresholdOf(subtract_call.impl))
    /\ NineToFiveCall => NineToFiveResult

\* CalendarScheduler subtracted 10:00-11:00 from 9-5
C4_Witness == NineToFiveCall /\ NineToFiveResult

(* C5: in the unified pass, busy periods of the two providers that overlap
   remove exactly their union: the stored week equals the one obtained with
   the overlapping periods merged into one, and the one obtained with the
   Outlook periods ahead of the Google periods *)
DtBefore(a, b) == a.day < b.day \/ (a.day = b.day /\ a.minute < b.minute)

PeriodsOverlap(p, q) == DtBefore(p.start, q.end) /\ DtBefore(q.start, p.end)

MergedPeriod(p, q) ==
    [start |-> IF DtBefore(q.start, p.start) THEN q.start ELSE p.start,
     end   |-> IF DtBefore(p.end, q.end) THEN q.end ELSE p.end]

RECURSIVE MergeOverlapping(_)
MergeOverlapping(periods) ==
    IF \E p, q \in periods : p # q /\ PeriodsOverlap(p, q)
      THEN LET pair == CHOOSE pq \in periods \X periods : pq[1] # pq[2] /\ PeriodsOverlap(pq[1], pq[2])
           IN MergeOverlapping((periods \ {pair[1], pair[2]}) \cup {MergedPeriod(pair[1], pair[2])})
      ELSE periods

C5_UnifiedRemovesUnion ==
    lastOp = "sync_user_unified_calendars" =>
        /\ availability = CS_sync_user(prev, CalendarList(MergeOverlapping(google_calendar \cup outlook_calendar)))
        /\ availability = CS_sync_user(prev, CalendarList(outlook_calendar) \o CalendarList(google_calendar))

\* Google reported Monday 10:00-11:00 and Outlook Monday 10:30-12:00 for a 9-5 Monday
C5_Witness ==
    /\ lastOp = "sync_user_unified_calendars"
    /\ google_calendar = {Period(0, 600, 0, 660)}
    /\ outlook_calendar = {Period(0, 630, 0, 720)}
    /\ StoredDay(prev, 0, "monday") = NineToFive
    /\ StoredDay(availability, 0, "monday").time_ranges
         = << Range(Str12(9, 0, "AM"), Str12(10, 0, "AM")), Range(Str12(12, 0, "PM"), Str12(5, 0, "PM")) >>

(* C6: a pass stores no remainder shorter than the minimum duration of its
   path, and a day of which no remainder reaches the minimum is stored with
   available=false and an empty time_ranges list *)
MinDurationOf(op) ==
    IF op \in CSOps THEN CS_MIN_DURATION ELSE IF op \in RTOps THEN RT_MIN_DURATION ELSE GS_MIN_DURATION

DurationOf(time_range) == CS_time_to_minutes(time_range.end) - CS_time_to_minutes(time_range.start)

BusyMinutes(busy_time) ==
    <<busy_time.start.hour * 60 + busy_time.start.minute, busy_time.end.hour * 60 + busy_time.end.minute>>

\* some stretch of at least T minutes of the range [s, e) meets no busy time
HasFreeStretch(s, e, day_busy_times, T) ==
    \E a \in {s} \cup {BusyMinutes(day_busy_times[i])[2] : i \in 1 .. Len(day_busy_times)} :
        /\ s <= a /\ a + T <= e
        /\ \A i \in 1 .. Len(day_busy_times) :
              LET b == BusyMinutes(day_busy_times[i])
              IN b[1] < b[2] => (b[2] <= a \/ b[1] >= a + T)

C6_NoShortRemainder ==
    lastOp \in CSOps \cup RTOps \cup GSOps =>
        \A week_start \in WeekStarts, day_name \in AllDayNames :
            Rewritten(week_start, day_name) =>
                LET before == StoredDay(prev, week_start, day_name)
                    after  == StoredDay(availability, week_start, day_name)
                    busy   == UsedDayBusy(week_start, day_name)
                    T      == MinDurationOf(lastOp)
                IN /\ "time_ranges" \in DOMAIN after
                   /\ \A i \in 1 .. Len(after.time_ranges) : DurationOf(after.time_ranges[i]) >= T
                   /\ (~\E i \in 1 .. Len(RangesOf(before)) :
                            HasFreeStretch(RangesOf(before)[i][1], RangesOf(before)[i][2], busy, T))
                        => (StoredUnavailable(after) /\ after.time_ranges = <<>>)

\* the route met a 9-5 Monday with Monday 9:15-16:59 busy
C6_Witness ==
    /\ lastOp = "sync_from_google_calendar"
    /\ google_calendar = {Period(0, 555, 0, 1019)}
    /\ StoredDay(prev, 0, "monday") = NineToFive
    /\ StoredDay(availability, 0, "monday") = UnavailableFull

(* C7: in a CalendarScheduler pass a day that no busy period touches is
   stored after the pass exactly as before *)
C7_UntouchedDayUnchanged ==
    lastOp \in CSOps =>
        \A week_start \in WeekStarts, day_name \in AllDayNames :
            UsedDayBusy(week_start, day_name) = <<>> =>
                /\ (day_name \in DOMAIN get_or_create_availability(availability, week_start)
                      <=> day_name \in DOMAIN get_or_create_availability(prev, week_start))
                /\ StoredDay(availability, week_start, day_name) = StoredDay(prev, week_start, day_name)

\* the pass rewrote Monday and left the Saturday stored as '09:00'-'17:00'
C7_Witness ==
    /\ lastOp \in CSOps
    /\ UsedDayBusy(0, "monday") # <<>>
    /\ UsedDayBusy(0, "saturday") = <<>>
    /\ StoredDay(availability, 0, "monday") # StoredDay(prev, 0, "monday")
    /\ StoredDay(prev, 0, "saturday") = NineToFive
    /\ StoredDay(availability, 0, "saturday") = NineToFive

(* C8: in the on-demand routes an available day reconciled against zero
   busy periods is stored back identical to what it was *)
C8_RouteNoConflictPassThrough ==
    lastOp \in RTOps =>
        \A week_start \in WeekStarts, day_name \in AllDayNames :
            (IsAvailable(StoredDay(prev, week_start, day_name)) /\ UsedDayBusy(week_start, day_name) = <<>>)
                => StoredDay(availability, week_start, day_name) = StoredDay(prev, week_start, day_name)

(* C9: a CalendarScheduler pass is idempotent: running the same pass again
   with the same busy periods leaves the stored weeks as the first pass left
   them *)
C9_PassIdempotent ==
    [][(lastOp \in CSOps /\ lastOp' = lastOp) => availability' = availability]_vars

\* the Google pass ran a second time over the Monday it had cut at 10:00-11:00
C9_Witness ==
    /\ lastOp = "sync_user_google_calendar"
    /\ google_calendar = {Period(0, 600, 0, 660)}
    /\ prev = availability
    /\ Get(StoredDay(availability, 0, "monday"), "time_ranges", <<>>)
         = << Range(Str12(9, 0, "AM"), Str12(10, 0, "AM")), Range(Str12(11, 0, "AM"), Str12(5, 0, "PM")) >>

(* C10: after every sync write the time_ranges stored for a day are sorted by
   start and pairwise non-overlapping *)
SortedNonOverlapping(ranges) ==
    \A i \in 1 .. (Len(ranges) - 1) : ranges[i][2] <= ranges[i + 1][1]

C10_StoredRangesSorted ==
    lastOp \in CSOps \cup RTOps \cup GSOps =>
        \A week_start \in WeekStarts, day_name \in AllDayNames :
            Rewritten(week_start, day_name)
                => SortedNonOverlapping(RangesOf(StoredDay(availability, week_start, day_name)))

\* a day with available=false has no range, a day with available=true has one
DayScheduleInvariant(day_data) ==
    /\ ~Get(day_data, "available", FALSE) => Get(day_data, "time_ranges", <<>>) = <<>>
    /\ Get(day_data, "available", FALSE)
          => (Get(day_data, "time_ranges", <<>>) # <<>> \/ {"start", "end"} \subseteq DOMAIN day_data)

(* C11: after update_day_availability calls, default schedules saved from
   such data and applied, and CalendarScheduler passes, every stored day
   with available=false has no time range and every stored day with
   available=true has a non-empty time_ranges list or the start/end pair *)
C11_DayScheduleInvariant ==
    \A week_start \in DOMAIN availability :
        \A day_name \in DOMAIN availability[week_start] :
            DayScheduleInvariant(availability[week_start][day_name])

\* a pass left no time on a Monday that update_day_availability had set to
\* 10:00-10:45 and that a default schedule had carried to the following weeks
C11_Witness ==
    /\ lastOp \in CSOps
    /\ default_schedules # <<>>
    /\ StoredDay(prev, 0, "monday") = UpdatedDay(TRUE, Str24(600), Str24(645), FALSE)
    /\ StoredDay(availability, 7, "monday") = UpdatedDay(TRUE, Str24(600), Str24(645), FALSE)
    /\ StoredDay(availability, 0, "monday") = DayData(FALSE, Str24(600), Str24(645), <<>>, FALSE)

(* C12: after save_default_schedule calls made one after another at most one
   DefaultSchedule row is active, and it is the row saved last *)
C12_OneActiveDefault ==
    /\ Cardinality({i \in 1 .. Len(default_schedules) : default_schedules[i].is_active}) <= 1
    /\ lastOp = "save_default_schedule" =>
          /\ default_schedules[Len(default_schedules)].is_active
          /\ default_schedules[Len(default_schedules)].schedule_data = outcome.schedule_data

\* a second default schedule was saved after a different one
C12_Witness ==
    /\ lastOp = "save_default_schedule"
    /\ Len(default_schedules) = 2
    /\ ~default_schedules[1].is_active
    /\ default_schedules[2].is_active
    /\ default_schedules[1].schedule_data # default_schedules[2].schedule_data

\* every week of range(0, max_weeks + 1) holds the schedule data
HoldsTemplate(table, schedule_data, max_weeks) ==
    \A week_offset \in 0 .. max_weeks :
        /\ 7 * week_offset \in DOMAIN table
        /\ table[7 * week_offset] = schedule_data

(* C14: after _apply_default_to_future_weeks(user, template, max_weeks=N)
   completed without error every week offset 0..N (N+1 weeks, 53 for the
   default 52) has a record holding the template, whatever was stored
   before, and applying the same template again changes nothing *)
C14_ApplyOverwritesAllWeeks ==
    (lastOp = "save_default_schedule" /\ outcome.raised_at = NoWeek) =>
        /\ Cardinality(ApplyWeeks(DEFAULT_MAX_WEEKS)) = DEFAULT_MAX_WEEKS + 1
        /\ HoldsTemplate(availability, outcome.schedule_data, DEFAULT_MAX_WEEKS)
        /\ \A N \in {0, 1, DEFAULT_MAX_WEEKS} :
              LET applied == apply_default_to_future_weeks(prev, outcome.schedule_data, N, NoWeek)
              IN /\ Cardinality(ApplyWeeks(N)) = N + 1
                 /\ HoldsTemplate(applied, outcome.schedule_data, N)
                 /\ apply_default_to_future_weeks(applied, outcome.schedule_data, N, NoWeek) = applied

\* the template replaced a week edited by hand and filled the last week of the range
C14_Witness ==
    /\ lastOp = "save_default_schedule"
    /\ outcome.raised_at = NoWeek
    /\ outcome.schedule_data = ("monday" :> NineToFive)
    /\ 7 \in DOMAIN prev /\ prev[7] = ("monday" :> Unsorted)
    /\ 7 * DEFAULT_MAX_WEEKS \notin DOMAIN prev
    /\ availability[7] = ("monday" :> NineToFive)
    /\ availability[7 * DEFAULT_MAX_WEEKS] = ("monday" :> NineToFive)

(* C15: when writing one week fails during _apply_default_to_future_weeks the
   weeks at the other offsets still end up holding the template and the
   failure is reported to the caller *)
C15_FailedWeekDoesNotBlockOthers ==
    (lastOp = "save_default_schedule" /\ outcome.raised_at # NoWeek) =>
        /\ \A week_start \in ApplyWeeks(DEFAULT_MAX_WEEKS) \ {outcome.raised_at} :
              /\ week_start \in DOMAIN availability
              /\ availability[week_start] = outcome.schedule_data
        /\ ~outcome.success

(* C13: at most one DefaultSchedule row of the user is active at any time,
   also when two save_default_schedule requests interleave *)
C13_OneActiveDefaultAlways ==
    Cardinality({i \in 1 .. Len(default_schedules) : default_schedules[i].is_active}) <= 1

(* C17: no manual edit is lost to a sync pass: what the pass commits for a
   week is what the pass computes from the data stored when it commits,
   manual edits made since it read included *)
C17_NoLostUpdate ==
    lastOp = "sync_user_google_calendar_commit" =>
        \A week_start \in WeekStarts :
            availability[week_start] = CS_sync_week(prev, CalendarList(google_calendar), week_start)

\* the busy periods the pass taken last was given
PassBusy ==
    IF lastOp = "sync_user_google_calendar_returning" THEN CalendarList(google_calendar)
    ELSE IF lastOp = "sync_user_outlook_calendar_returning" THEN CalendarList(outlook_calendar)
    ELSE CalendarList(google_calendar) \o CalendarList(outlook_calendar)

PassOps == {"sync_user_google_calendar_returning", "sync_user_outlook_calendar_returning",
            "sync_user_unified_calendars_returning"}

(* C16: in a per-user pass an exception raised while one of the four weeks
   is processed does not stop the pass: every week that does not raise is
   reconciled and stored, and the pass returns success when at least one
   week succeeded *)
C16_WeekFailureIsolated ==
    lastOp \in PassOps =>
        LET ok == {w \in WeekStarts : ~CS_week_raises(prev, PassBusy, w)}
        IN /\ \A w \in ok : availability[w] = CS_sync_week(prev, PassBusy, w)
           /\ (ok # {}) => outcome.returned

\* the second week raised and the busy Mondays of the first and the third were cut
C16_Witness ==
    /\ lastOp = "sync_user_google_calendar_returning"
    /\ outcome.returned
    /\ CS_week_raises(prev, PassBusy, 7)
    /\ availability[7] = prev[7]
    /\ prev[0] = ("monday" :> NineToFive) /\ availability[0] # prev[0]
    /\ prev[14] = ("monday" :> NineToFive) /\ availability[14] # prev[14]

(* C18: in every reachable state there is at most one Availability record
   per (user_id, week_start_date), also when two callers that both found no
   record interleave their check-then-insert *)
C18_OneRowPerWeek ==
    \A i, j \in 1 .. Len(availability_rows) :
        availability_rows[i].week_start_date = availability_rows[j].week_start_date => i = j

\* a caller that had found no row for the week inserted after another caller
\* had, and was rejected
C18_Witness ==
    /\ lastOp = "get_or_create_insert"
    /\ outcome.raised
    /\ Cardinality({i \in 1 .. Len(availability_rows) : availability_rows[i].week_start_date = 0}) = 1

(* C19: get_busy_times of the Google and of the Outlook adapter reports a
   connectivity or authentication failure as an error, distinguishable from
   the empty busy list of a provider that has no conflicts *)
C19_FailureIsNotAnEmptyList ==
    (/\ adapter_call.adapter \in {"GoogleCalendarService.get_busy_times",
                                   "OutlookCalendarService.get_busy_times"}
     /\ adapter_call.status # "ok")
    => adapter_call.raised

\* the busy periods of the events whose showAs is busy or oof
BusyOrOof(event) == event.showAs \in {"busy", "oof"}

(* C20: the Outlook conversions of the service and of the on-demand route
   return a busy period for exactly the events whose showAs is busy or oof;
   free, tentative and workingElsewhere events give none *)
C20_BusyExactlyBusyOrOof ==
    (/\ adapter_call.adapter \in {"OutlookCalendarService.get_busy_times", "sync_from_outlook_calendar"}
     /\ adapter_call.status = "ok")
    => adapter_call.returned = EventsToBusy(SelectSeq(adapter_call.events, BusyOrOof))

\* a busy interval whose start or end is text that cannot be parsed
Unparseable(busy_period) == busy_period.start.kind = "bad" \/ busy_period.end.kind = "bad"

(* C21: _convert_busy_times_to_availability_format skips a busy interval
   whose start or end cannot be parsed: it raises nothing, and the week it
   computes equals the week computed for the list without these intervals *)
C21_UnparseableIntervalSkipped ==
    function_call.function = "CS_convert_busy_times_to_availability_format"
    => /\ ~function_call.raised
       /\ function_call.returned =
             CS_convert_raw_busy_times(
                 SelectSeq(function_call.busy_times, LAMBDA busy_period : ~Unparseable(busy_period)),
                 0, function_call.table)

\* a list with an unparseable interval and a good one on an available Monday:
\* the Monday was rewritten
C21_Witness ==
    /\ function_call.function = "CS_convert_busy_times_to_availability_format"
    /\ \E i \in 1 .. Len(function_call.busy_times) : Unparseable(function_call.busy_times[i])
    /\ "monday" \in DOMAIN function_call.returned
    /\ function_call.returned["monday"].time_ranges # <<>>

\* the 12-hour string of a minute of the day, hour without a leading zero
TwelveHourOf(m) ==
    Str12(IF (m \div 60) % 12 = 0 THEN 12 ELSE (m \div 60) % 12, m % 60, IF m < 720 THEN "AM" ELSE "PM")

(* C22: in CalendarScheduler and in the routes, minutes_to_time_str(m) is the
   12-hour string of m for every m in 0..1439 and time_to_minutes maps it
   back to m; time_to_minutes followed by minutes_to_time_str returns every
   12-hour string unchanged *)
C22_TwelveHourRoundTrip ==
    /\ function_call.function \in {"CS_format_then_parse", "RT_format_then_parse"}
       => /\ function_call.time_str = TwelveHourOf(function_call.minutes)
          /\ function_call.returned = function_call.minutes
    /\ function_call.function \in {"CS_parse_then_format", "RT_parse_then_format"}
       => function_call.returned = function_call.time_str

\* minute 720 was written '12:00 PM' and read back as 720
C22_Witness ==
    /\ function_call.function = "CS_format_then_parse"
    /\ function_call.minutes = 720
    /\ TimeText(function_call.time_str) = "12:00 PM"
    /\ function_call.returned = 720

\* the minute of the day a stored time string names, in either encoding
StoredMinute(time_str) == CS_time_to_minutes(time_str)

\* the stored ranges of the day as clock time of the zone, 12-hour
RangesInZone(day_data, user_timezone) ==
    IF IsAvailable(day_data)
      THEN [i \in 1 .. Len(ExistingTimeRanges(day_data)) |->
              Range(TwelveHourOf((StoredMinute(ExistingTimeRanges(day_data)[i].start)
                                  + ZoneOffset(user_timezone)) % 1440),
                    TwelveHourOf((StoredMinute(ExistingTimeRanges(day_data)[i].end)
                                  + ZoneOffset(user_timezone)) % 1440))]
      ELSE <<>>

(* C23: get_time_ranges(day, tz) with a valid zone returns every stored range
   of the day as clock time in that zone, shifted from America/New_York and
   formatted 12-hour, for ranges stored as 'HH:MM' and for ranges stored as
   'H:MM AM/PM'; the stored availability data is left as it was *)
C23_RangesShiftedToZone ==
    (/\ function_call.function = "get_time_ranges"
     /\ function_call.user_timezone # NoTimezone
     /\ ZoneOffset(function_call.user_timezone) # NoZone)
    => /\ function_call.returned =
             RangesInZone(StoredDayOf(function_call.table, 0, "monday"), function_call.user_timezone)
       /\ function_call.table_after = function_call.table

\* a stats record: synced and errors counts
IsStats(stats) == DOMAIN stats = {"synced", "errors"} /\ stats.synced \in Nat /\ stats.errors \in Nat

\* the value a job returned carries synced and errors counts
CarriesStats(returned) ==
    \/ IsStats(returned)
    \/ /\ DOMAIN returned = {"unified", "google_only", "outlook_only"}
       /\ \A path \in DOMAIN returned : IsStats(returned[path])

(* C24: CalendarScheduler.sync_all_users_availability and
   GoogleCalendarScheduler.sync_all_users_availability never raise to their
   caller and always return a stats record with synced and errors counts,
   also when a provider is not configured and when loading the users fails *)
C24_JobAlwaysReturnsStats ==
    job.job # "none" => ~job.raised /\ CarriesStats(job.returned)

\* the errors counted in what a job returned
ErrorsOf(returned) ==
    IF IsStats(returned) THEN returned.errors
    ELSE returned.unified.errors + returned.google_only.errors + returned.outlook_only.errors

(* C25: whenever at least one week of a user's pass raised during a sync job,
   the errors count of the stats returned is greater than zero, also when
   other weeks of that user succeeded *)
C25_FailedWeekCounted ==
    (/\ job.job = "CalendarScheduler.sync_all_users_availability"
     /\ \E u \in Users : job.paths[u] # {} /\ job.failed_weeks[u] > 0)
    => ErrorsOf(job.returned) > 0

\* the user has sync_enabled and auto_sync_availability for a provider that
\* is configured
Eligible(u) ==
    \/ job.records[u].google /\ job.configured.google
    \/ job.records[u].outlook /\ job.configured.outlook

(* C26: in one run of CalendarScheduler.sync_all_users_availability every
   user who has sync enabled for at least one configured provider is synced
   by exactly one of the paths unified, Google-only, Outlook-only, for every
   combination of configured providers *)
C26_ExactlyOnePath ==
    (job.job = "CalendarScheduler.sync_all_users_availability" /\ ~job.db_raises)
    => \A u \in Users : Eligible(u) => Cardinality(job.paths[u]) = 1

(* C27: after an on-demand sync route or a CalendarScheduler pass has stored
   a day's ranges, a following GoogleCalendarScheduler._sync_user_availability
   pass parses the stored ranges and completes every week without a week
   error *)
C27_GooglePassReadsWhatOthersWrote ==
    lastOp = "GS_sync_user_availability"
    => \A week_start \in WeekStarts : ~GS_convert_raises(week_start, prev)

\* the available flag and the time_ranges of a stored day
FlagAndRanges(day_data) == <<IsAvailable(day_data), Get(day_data, "time_ranges", <<>>)>>

\* the week as one unified pass over both providers' busy lists leaves it
UnifiedWeek(week_start) ==
    CS_sync_user_weeks(prev, combined_busy_times(google_calendar, outlook_calendar))[week_start]

\* sync_user_now left every day of the week as the unified pass would
SameAsUnified(week_start) ==
    \A off \in 0 .. 6 :
        FlagAndRanges(get_day_availability(availability[week_start], DayName(week_start + off)))
        = FlagAndRanges(get_day_availability(UnifiedWeek(week_start), DayName(week_start + off)))

(* C28 as stated: sync_user_now, the Google pass followed by the Outlook
   pass, leaves for every day of every synced week the same available flag
   and the same time_ranges as one unified pass over the concatenation of
   both providers' busy lists, for every stored week *)
C28_SeparatePassesEqualUnified ==
    (lastOp = "sync_user_now" /\ sync_enabled.google /\ sync_enabled.outlook)
    => \A week_start \in WeekStarts : SameAsUnified(week_start)

(* C28 amended: sync_user_now leaves the same available flag and the same
   time_ranges as one unified pass for every day of every week in which the
   unified pass raises no error, that is, in which every stored range of an
   available day with busy times parses *)
C28_SeparatePassesEqualUnifiedWhereNoWeekError ==
    (lastOp = "sync_user_now" /\ sync_enabled.google /\ sync_enabled.outlook)
    => \A week_start \in WeekStarts :
          ~CS_week_raises(prev, combined_busy_times(google_calendar, outlook_calendar), week_start)
          => SameAsUnified(week_start)

\* Google reported Monday 10:00-11:00 and Outlook Monday 10:30-12:00 for a
\* 9-5 Monday, and sync_user_now left 9-10 and 12-5
C28_Witness ==
    /\ lastOp = "sync_user_now"
    /\ google_calendar = {Period(0, 600, 0, 660)}
    /\ outlook_calendar = {Period(0, 630, 0, 720)}
    /\ StoredDay(prev, 0, "monday") = NineToFive
    /\ MinutesOf(StoredDay(availability, 0, "monday")) = (540 .. 599) \cup (720 .. 1019)

\* the busy times the unified pass saw on a day, as pairs of minutes
UnifiedDayBusy(week_start, off) ==
    LET day_busy_times == DayBusyTimes(get_busy_times(combined_busy_times(google_calendar, outlook_calendar),
                                                      week_start, week_start + 6), week_start + off)
    IN [i \in 1 .. Len(day_busy_times) |->
          <<CS_time_to_minutes(day_busy_times[i].start), CS_time_to_minutes(day_busy_times[i].end)>>]

\* the range overlaps none of the busy times
OverlapsNone(range, busy) == \A i \in 1 .. Len(busy) : busy[i][2] <= range[1] \/ busy[i][1] >= range[2]

(* C29 as stated: in a CalendarScheduler pass, a stored range of an available
   day that overlaps no reported busy interval is still present after the
   pass with the same start and end minute, whatever its length and whatever
   other busy intervals fall on that day *)
C29_UntouchedRangeKept ==
    lastOp = "sync_user_unified_calendars_returning"
    => \A week_start \in WeekStarts : \A off \in 0 .. 6 :
          LET before == StoredDay(prev, week_start, DayName(week_start + off))
              after  == StoredDay(availability, week_start, DayName(week_start + off))
          IN (/\ ~CS_week_raises(prev, combined_busy_times(google_calendar, outlook_calendar), week_start)
              /\ IsAvailable(before))
             => \A i \in 1 .. Len(RangesOf(before)) :
                   OverlapsNone(RangesOf(before)[i], UnifiedDayBusy(week_start, off))
                   => \E j \in 1 .. Len(RangesOf(after)) : RangesOf(after)[j] = RangesOf(before)[i]

(* C29 amended: in a CalendarScheduler pass, a stored range of an available
   day that is at least 30 minutes long and overlaps no reported busy
   interval is still present after the pass with the same start and end
   minute, whatever other busy intervals fall on that day *)
C29_UntouchedRangeOfMinDurationKept ==
    lastOp = "sync_user_unified_calendars_returning"
    => \A week_start \in WeekStarts : \A off \in 0 .. 6 :
          LET before == StoredDay(prev, week_start, DayName(week_start + off))
              after  == StoredDay(availability, week_start, DayName(week_start + off))
          IN (/\ ~CS_week_raises(prev, combined_busy_times(google_calendar, outlook_calendar), week_start)
              /\ IsAvailable(before))
             => \A i \in 1 .. Len(RangesOf(before)) :
                   (/\ OverlapsNone(RangesOf(before)[i], UnifiedDayBusy(week_start, off))
                    /\ RangesOf(before)[i][2] - RangesOf(before)[i][1] >= CS_MIN_DURATION)
                   => \E j \in 1 .. Len(RangesOf(after)) : RangesOf(after)[j] = RangesOf(before)[i]

\* a Monday stored with 09:00-09:20 and 13:00-17:00 met a busy 10:30-12:00:
\* the afternoon is still there, the twenty minutes are not
C29_Witness ==
    /\ lastOp = "sync_user_unified_calendars_returning"
    /\ StoredDay(prev, 0, "monday") = ShortAndLong
    /\ UnifiedDayBusy(0, 0) = << <<630, 720>> >>
    /\ RangesOf(StoredDay(availability, 0, "monday")) = << <<780, 1020>> >>


\* the record of week get_week_start(date) under the weekday name of date
RecordOfDate(date) == {DayRecord(get_week_start(date), WeekdayName(date))}

\* C30: for every calendar date D, Sundays included, the day record a sync pass rewrites for the
\* busy intervals falling on D (the record of week get_week_start(D) under the weekday name of
\* D) is the record the calendar view and the availability week view present for D, and the one
\* the group availability check reads for D.
C30_SameRecordForDate ==
    function_call.function \in {"_convert_busy_times_to_availability_format", "get_month_data",
                                "get_week_availability", "_all_members_available_on_date"}
        => function_call.returned = RecordOfDate(function_call.date)

====
